---------------------------- MODULE Spec2Model ----------------------------
(***************************************************************************)
(* A model of loopy: the channel-resource allocator (InstrumentRegistry),  *)
(* the pattern buffer (StepChannel) and the step player (StepSequencer),   *)
(* driven against the recording sound engine of the test suite.            *)
(***************************************************************************)
EXTENDS Integers, Sequences, FiniteSets, TLC

VARIABLES
    reg,            \* the InstrumentRegistry object (its fields)
    engine,         \* the sound engine as seen by the registry
    max_channels,   \* the constructor argument of the registry
    last,           \* the most recent registry call, its result and backend calls
    rpc,            \* each registering thread's position and locals
    raced,          \* per path: a call missed the cache while another was loading it
    stepch,         \* the StepChannel objects
    written,        \* per StepChannel: the value last written at each index passed
    seq,            \* the StepSequencer object
    slast,          \* what the most recent advance_one_step returned
    shist,          \* the number of advance_one_step calls, the tempo last set
    sthr,           \* the step loop thread and the thread calling stop(): positions, locals
    proj,           \* the Project object, its ticker, worker pool and channels
    chv,            \* the project's FreeMetronomeChannel, its tick and its timers
    variants,       \* one channel object of each variant, called by one thread
    run             \* the threads calling start() and stop(), and the step loops started

regvars == <<reg, engine, max_channels, last, rpc, raced>>
seqvars == <<stepch, written, seq, slast, shist>>
extvars == <<sthr, proj, chv, variants, run>>
vars == <<reg, engine, max_channels, last, rpc, raced, stepch, written, seq, slast, shist,
          sthr, proj, chv, variants, run>>

(***************************************************************************)
(* Bounds and input domains.                                               *)
(***************************************************************************)
MaxChannels == 2
MaxPool == 2
MaxIndex == 2
MaxAdvances == 4
MaxLoopSteps == 2
MaxCalls == 3
MaxBeats == 4
MaxTicks == 2
MaxVariantCalls == 4
MaxSeqCalls == 3
MaxMetCalls == 6
MaxAttached == 5
MaxAttachBeats == 2

Names == {"piano", "guitar", "bass"}
Paths == {"a.sf2", "b.sf2"}
Banks == {0}
Presets == {0, 1}
\* The (soundfont_path, bank, preset) triples the callers ask for.
Keys == {<<"a.sf2", 0, 0>>, <<"b.sf2", 0, 1>>}
Threads == {"t1", "t2"}

NoValue == "None"
RuntimeError == "RuntimeError"
\* The channel of a lookup that found nothing, and of a call that raised.
NoChannel == -1
\* A step's note or velocity that is None.
NoNote == -1
NoVelocity == -1
\* A pattern entry that is None; a written entry is <<note, velocity>>.
EmptyStep == <<>>

Notes == {60, 62, 64}
Velocities == {70, 100}
ChanIds == {"c1", "c2"}
\* The bpm the sequencer is constructed with (the default).
DefaultBpm == 120
\* The arguments of set_tempo; 0 makes its division raise.
TempoArgs == {0, 60, 120}
\* The steps arguments of the sequencer's constructor.
StepsArgs == {0, 2, 4}
ZeroDivisionError == "ZeroDivisionError"
KeyError == "KeyError"

EmptyMap == [x \in {} |-> NoValue]

Put(f, k, v) == [x \in (DOMAIN f) \cup {k} |-> IF x = k THEN v ELSE f[x]]

Pop(f, k) == [x \in (DOMAIN f) \ {k} |-> f[x]]

SetDefault(f, k, v) == IF k \in DOMAIN f THEN f ELSE Put(f, k, v)

Range(s) == {s[i] : i \in DOMAIN s}

(***************************************************************************)
(* The sound engine: load_soundfont hands out one id per path.             *)
(***************************************************************************)
\* load_calls counts the invocations of load_soundfont per path.
NewEngine == [loaded_soundfonts |-> EmptyMap, load_calls |-> [p \in Paths |-> 0],
              note_events |-> <<>>]

synch_noteon(e, midi_channel, note, velocity) ==
    [e EXCEPT !.note_events = Append(@, <<"on", midi_channel, note, velocity>>)]

synch_noteoff(e, midi_channel, note) ==
    [e EXCEPT !.note_events = Append(@, <<"off", midi_channel, note, NoVelocity>>)]

load_soundfont(e, path) ==
    LET ids == SetDefault(e.loaded_soundfonts, path,
                          Cardinality(DOMAIN e.loaded_soundfonts) + 1)
    IN [engine |-> [e EXCEPT !.loaded_soundfonts = ids,
                             !.load_calls[path] = @ + 1],
        sfid |-> ids[path]]

(***************************************************************************)
(* InstrumentRegistry.                                                     *)
(***************************************************************************)
NewRegistry(n) ==
    [registry |-> EmptyMap,
     soundfont_cache |-> EmptyMap,
     available_channels |-> [i \in 1..n |-> i - 1],
     soundfont_presets |-> {},
     preset_to_primary_name |-> EmptyMap]

\* Lines 73-78: the soundfont is looked up and loaded before the lock is taken.
CacheHit(r, path) == path \in DOMAIN r.soundfont_cache

\* The early return left out: a repeated name is treated as a new one.
AlreadyRegistered_Never(r, name) == FALSE

\* Line 83: the early return for a name that is already in the table.
AlreadyRegistered(r, name) == name \in DOMAIN r.registry

\* Lines 90-93: the primary of a preset key, when it is still in the table.
LivePrimary(r, key) ==
    IF key \in DOMAIN r.preset_to_primary_name
           /\ r.preset_to_primary_name[key] \in DOMAIN r.registry
    THEN r.preset_to_primary_name[key]
    ELSE NoValue

\* Line 81: _ensure_soundfont_cached asks the engine for the presets once per path.
EnsureCached(r, path) ==
    [reg |-> [r EXCEPT !.soundfont_presets = @ \cup {path}],
     calls |-> IF path \in r.soundfont_presets THEN <<>> ELSE <<"list_presets">>]

\* Lines 109-137: a new primary takes the head of the pool.
Allocate(r, e, name, path, bank, preset, sfid) ==
    LET ch == Head(r.available_channels)
        key == <<path, bank, preset>>
    IN [reg |-> [r EXCEPT
                   !.available_channels = Tail(@),
                   !.registry = Put(@, name,
                       [channel |-> ch, sfid |-> sfid, bank |-> bank,
                        preset |-> preset, soundfont_path |-> path]),
                   !.preset_to_primary_name = SetDefault(@, key, name)],
        engine |-> e,
        ret |-> ch,
        raised |-> NoValue,
        log |-> "registered",
        calls |-> <<"select_instrument", "channel_info">>]

\* The primary is recorded before the pool is found empty.
Exhausted_RecordsPrimary(r, e, name, key, calls) ==
    [reg |-> [r EXCEPT !.preset_to_primary_name = SetDefault(@, key, name)],
     engine |-> e, ret |-> NoChannel, raised |-> RuntimeError,
     log |-> NoValue, calls |-> calls]

\* Lines 106-107: no channel is left for a new primary.
Exhausted(r, e, name, key, calls) ==
    [reg |-> r, engine |-> e, ret |-> NoChannel, raised |-> RuntimeError,
     log |-> NoValue, calls |-> calls]

\* Lines 92-104: the new name shares the entry of the preset's primary.
Alias(r, e, name, primary, calls) ==
    [reg |-> [r EXCEPT !.registry = Put(@, name, r.registry[primary])],
     engine |-> e, ret |-> r.registry[primary].channel, raised |-> NoValue,
     log |-> "reusing", calls |-> calls]

\* Lines 80-137: the part of register_instrument that runs under the lock.
RegisterLocked(r0, e, name, path, bank, preset, sfid) ==
    LET ec == EnsureCached(r0, path)
        r == ec.reg
        key == <<path, bank, preset>>
        primary == LivePrimary(r, key)
    IN IF AlreadyRegistered(r, name)
       THEN [reg |-> r, engine |-> e, ret |-> r.registry[name].channel,
             raised |-> NoValue, log |-> "already registered", calls |-> ec.calls]
       ELSE IF primary # NoValue
       THEN Alias(r, e, name, primary, ec.calls)
       ELSE IF r.available_channels = <<>>
       THEN Exhausted(r, e, name, key, ec.calls)
       ELSE LET a == Allocate(r, e, name, path, bank, preset, sfid)
            IN [a EXCEPT !.calls = ec.calls \o @]

\* The loaded id is not kept.
CacheStore_Forgets(r, path, sfid) == r

\* Line 78: the id is put into the cache.
CacheStore(r, path, sfid) == [r EXCEPT !.soundfont_cache = Put(@, path, sfid)]

\* Lines 63-137 run by one thread without interruption.
register_instrument(r, e, name, path, bank, preset) ==
    IF CacheHit(r, path)
    THEN RegisterLocked(r, e, name, path, bank, preset, r.soundfont_cache[path])
    ELSE LET ld == load_soundfont(e, path)
             r1 == CacheStore(r, path, ld.sfid)
             res == RegisterLocked(r1, ld.engine, name, path, bank, preset, ld.sfid)
         IN [res EXCEPT !.calls = <<"load_soundfont">> \o @]

\* The entry's channel is put at the front of the pool.
Release_ToFront(pool, entry) == <<entry.channel>> \o pool

\* Line 243: the entry's channel goes to the back of the pool.
Release(pool, entry) == Append(pool, entry.channel)

\* Lines 238-243.
unregister_instrument(r, name) ==
    IF name \in DOMAIN r.registry
    THEN [r EXCEPT !.registry = Pop(@, name),
                   !.available_channels = Release(@, r.registry[name])]
    ELSE r

\* A name that is not in the table resolves to channel 0.
get_instrument_DefaultsToZero(r, name) ==
    IF name \in DOMAIN r.registry THEN r.registry[name].channel ELSE 0

\* Lines 191-203.
get_instrument(r, name) ==
    IF name \in DOMAIN r.registry THEN r.registry[name].channel ELSE NoChannel

(***************************************************************************)
(* StepChannel.                                                            *)
(***************************************************************************)
NewStepChannel(instrument_name, volume) ==
    [instrument_name |-> instrument_name, volume |-> volume, steps |-> <<>>]

\* StepChannel.set_instrument, lines 30-32.
set_instrument(c, instrument_name) == [c EXCEPT !.instrument_name = instrument_name]

\* Lines 14-16 and 23-25: the list is padded with None up to the index.
Extend(steps, step) ==
    IF step >= Len(steps)
    THEN steps \o [i \in 1..(step + 1 - Len(steps)) |-> EmptyStep]
    ELSE steps

\* Lines 12-19.
set_step(c, step, note, velocity) ==
    [c EXCEPT !.steps = [Extend(@, step) EXCEPT ![step + 1] = <<note, velocity>>]]

\* The index is written only when the list already reaches it.
reset_step_NoGrow(c, step) ==
    IF step >= Len(c.steps) THEN c
    ELSE [c EXCEPT !.steps = [@ EXCEPT ![step + 1] = EmptyStep]]

\* Lines 21-28.
reset_step(c, step) ==
    [c EXCEPT !.steps = [Extend(@, step) EXCEPT ![step + 1] = EmptyStep]]

(***************************************************************************)
(* StepSequencer.  A duration is held in milliseconds.                     *)
(***************************************************************************)
Max(a, b) == IF a >= b THEN a ELSE b

\* Lines 17 and 32: 60.0 / bpm.
StepDuration(bpm) == 60000 \div bpm

\* Lines 12-26.
NewSequencer(steps, bpm) ==
    [steps |-> Max(1, steps),
     bpm |-> bpm,
     step_duration |-> StepDuration(bpm),
     channels |-> <<>>,
     active_notes |-> EmptyMap,
     current_step |-> 0,
     is_running |-> FALSE]

\* The duration is left as it was.
set_tempo_KeepsDuration(q, bpm) ==
    [seq |-> [q EXCEPT !.bpm = bpm],
     raised |-> IF bpm = 0 THEN ZeroDivisionError ELSE NoValue]

\* Lines 28-32: the bpm is stored before the division is made.
set_tempo(q, bpm) ==
    IF bpm = 0
    THEN [seq |-> [q EXCEPT !.bpm = bpm], raised |-> ZeroDivisionError]
    ELSE [seq |-> [q EXCEPT !.bpm = bpm, !.step_duration = StepDuration(bpm)],
          raised |-> NoValue]

\* The channel is appended, with a new empty set, whether it is attached or not.
add_channel_Always(q, c) ==
    [q EXCEPT !.channels = Append(@, c),
              !.active_notes = Put(@, c, {})]

\* Lines 34-40.
add_channel(q, c) ==
    IF c \in Range(q.channels) THEN q
    ELSE [q EXCEPT !.channels = Append(@, c),
                   !.active_notes = Put(@, c, {})]

\* list(active): the elements of a set in the order the iteration gives.
RECURSIVE ListOf(_)
ListOf(S) ==
    IF S = {} THEN <<>>
    ELSE LET x == CHOOSE y \in S : TRUE IN <<x>> \o ListOf(S \ {x})

RECURSIVE NoteOffs(_, _)
NoteOffs(e, pairs) ==
    IF pairs = <<>> THEN e
    ELSE NoteOffs(synch_noteoff(e, Head(pairs)[1], Head(pairs)[2]), Tail(pairs))

\* The note-offs are sent but the notes stay in the set.
stop_active_notes_KeepsNotes(q, e, c) ==
    IF c \notin DOMAIN q.active_notes \/ q.active_notes[c] = {}
    THEN [seq |-> q, engine |-> e]
    ELSE [seq |-> q, engine |-> NoteOffs(e, ListOf(q.active_notes[c]))]

\* Lines 136-143.
stop_active_notes(q, e, c) ==
    IF c \notin DOMAIN q.active_notes \/ q.active_notes[c] = {}
    THEN [seq |-> q, engine |-> e]
    ELSE [seq |-> [q EXCEPT !.active_notes[c] = {}],
          engine |-> NoteOffs(e, ListOf(q.active_notes[c]))]

\* Lines 42-48.
remove_channel(q, e, c) ==
    IF c \in Range(q.channels)
    THEN LET st == stop_active_notes(q, e, c)
         IN [seq |-> [st.seq EXCEPT
                        !.channels = SelectSeq(@, LAMBDA x : x # c),
                        !.active_notes = Pop(@, c)],
             engine |-> st.engine]
    ELSE [seq |-> q, engine |-> e]

\* Line 115: the entry of the pattern that the shared step index selects.
StepAt(steps, step_index) == steps[(step_index % Len(steps)) + 1]

\* The channel volume is used whatever the step says.
FinalVelocity_AlwaysVolume(velocity, volume) == volume

\* Line 132.
FinalVelocity(velocity, volume) == IF velocity # NoVelocity THEN velocity ELSE volume

\* Lines 109-134; sc is the StepChannel object of channel c.
play_channel_step(q, e, r, c, sc, step_index) ==
    LET st == stop_active_notes(q, e, c)
    IN IF sc.steps = <<>> THEN st
       ELSE LET step == StepAt(sc.steps, step_index)
                midi_channel == get_instrument(r, sc.instrument_name)
            IN IF step = EmptyStep THEN st
               ELSE IF step[1] = NoNote THEN st
               ELSE IF midi_channel = NoChannel THEN st
               ELSE LET on == synch_noteon(st.engine, midi_channel, step[1],
                                           FinalVelocity(step[2], sc.volume))
                    IN IF c \in DOMAIN st.seq.active_notes
                       THEN [seq |-> [st.seq EXCEPT !.active_notes[c] =
                                         @ \cup {<<midi_channel, step[1]>>}],
                             engine |-> on]
                       ELSE [seq |-> st.seq, engine |-> on]

\* Lines 101-105: the channels of the snapshot, one after the other.
RECURSIVE PlaySnapshot(_, _, _, _, _, _)
PlaySnapshot(q, e, r, scs, snapshot, step_index) ==
    IF snapshot = <<>> THEN [seq |-> q, engine |-> e]
    ELSE LET c == Head(snapshot)
             x == play_channel_step(q, e, r, c, scs[c], step_index)
         IN PlaySnapshot(x.seq, x.engine, r, scs, Tail(snapshot), step_index)

\* The index is moved on without the wrap.
NextStep_NoWrap(q) == q.current_step + 1

\* Lines 97-98: the index is read and moved on under the lock.
NextStep(q) == (q.current_step + 1) % q.steps

\* Lines 88-107.
advance_one_step(q, e, r, scs) ==
    LET q1 == [q EXCEPT !.current_step = NextStep(q)]
        x == PlaySnapshot(q1, e, r, scs, q.channels, q.current_step)
    IN [seq |-> x.seq, engine |-> x.engine, ret |-> q.step_duration]

(***************************************************************************)
(* Registry calls made one after the other.                                *)
(***************************************************************************)
Idle == [t \in Threads |-> [pc |-> "idle"]]

NoCall == [op |-> "none", name |-> NoValue, key |-> NoValue, ret |-> NoChannel,
           raised |-> NoValue, log |-> NoValue, calls |-> <<>>]

InitReg ==
    /\ max_channels \in 1..MaxChannels
    /\ reg = NewRegistry(max_channels)
    /\ engine = NewEngine
    /\ last = NoCall
    /\ rpc = Idle
    /\ raced = [p \in Paths |-> FALSE]
    /\ stepch = [c \in ChanIds |-> NewStepChannel("piano", 80)]
    /\ written = [c \in ChanIds |-> EmptyMap]
    /\ seq = NoValue
    /\ slast = NoValue
    /\ shist = NoValue
    /\ sthr = NoValue
    /\ proj = NoValue
    /\ chv = NoValue
    /\ variants = NoValue
    /\ run = NoValue

Register(name, path, bank, preset) ==
    LET res == register_instrument(reg, engine, name, path, bank, preset)
    IN /\ reg' = res.reg
       /\ engine' = res.engine
       /\ last' = [op |-> "register", name |-> name, key |-> <<path, bank, preset>>,
                   ret |-> res.ret, raised |-> res.raised, log |-> res.log,
                   calls |-> res.calls]
       /\ UNCHANGED <<max_channels, rpc, raced, seqvars, extvars>>

Unregister(name) ==
    /\ Len(reg.available_channels) < MaxPool
    /\ reg' = unregister_instrument(reg, name)
    /\ last' = [op |-> "unregister", name |-> name, key |-> NoValue,
                ret |-> NoChannel, raised |-> NoValue, log |-> NoValue,
                calls |-> <<>>]
    /\ UNCHANGED <<engine, max_channels, rpc, raced, seqvars, extvars>>

NextReg ==
    \/ \E n \in Names, k \in Keys : Register(n, k[1], k[2], k[3])
    \/ \E n \in Names : Unregister(n)

SpecReg == InitReg /\ [][NextReg]_vars

(***************************************************************************)
(* Registry calls made by several threads.  The cache lookup, the load and *)
(* the cache store of lines 74-78 run before the lock is taken, so they    *)
(* interleave; lines 80-137 run under the lock.                            *)
(***************************************************************************)
ConcNames == {"piano", "guitar"}

Loading(t, path) == rpc[t].pc \in {"load", "store"} /\ rpc[t].key[1] = path

\* Lines 74-75: the cache lookup.
RBegin(t, name, key) ==
    /\ rpc[t].pc = "idle"
    /\ IF CacheHit(reg, key[1])
       THEN /\ rpc' = [rpc EXCEPT ![t] = [pc |-> "lock", name |-> name, key |-> key,
                                          sfid |-> reg.soundfont_cache[key[1]],
                                          calls |-> <<>>]]
            /\ UNCHANGED raced
       ELSE /\ rpc' = [rpc EXCEPT ![t] = [pc |-> "load", name |-> name, key |-> key,
                                          sfid |-> 0, calls |-> <<>>]]
            /\ raced' = [raced EXCEPT ![key[1]] =
                            @ \/ \E u \in Threads \ {t} : Loading(u, key[1])]
    /\ UNCHANGED <<reg, engine, max_channels, last, seqvars, extvars>>

\* Line 77: the call into the engine.
RLoad(t) ==
    /\ rpc[t].pc = "load"
    /\ LET ld == load_soundfont(engine, rpc[t].key[1])
       IN /\ engine' = ld.engine
          /\ rpc' = [rpc EXCEPT ![t].pc = "store", ![t].sfid = ld.sfid,
                                ![t].calls = <<"load_soundfont">>]
    /\ UNCHANGED <<reg, max_channels, last, raced, seqvars, extvars>>

RStore(t) ==
    /\ rpc[t].pc = "store"
    /\ reg' = CacheStore(reg, rpc[t].key[1], rpc[t].sfid)
    /\ rpc' = [rpc EXCEPT ![t].pc = "lock"]
    /\ UNCHANGED <<engine, max_channels, last, raced, seqvars, extvars>>

\* Lines 80-137: the rest of the call, under the lock.
RLock(t) ==
    /\ rpc[t].pc = "lock"
    /\ LET c == rpc[t]
           res == RegisterLocked(reg, engine, c.name, c.key[1], c.key[2], c.key[3],
                                 c.sfid)
       IN /\ reg' = res.reg
          /\ engine' = res.engine
          /\ last' = [op |-> "register", name |-> c.name, key |-> c.key,
                      ret |-> res.ret, raised |-> res.raised, log |-> res.log,
                      calls |-> c.calls \o res.calls]
    /\ rpc' = [rpc EXCEPT ![t] = [pc |-> "idle"]]
    /\ UNCHANGED <<max_channels, raced, seqvars, extvars>>

NextRegConc ==
    \/ \E t \in Threads, n \in ConcNames, k \in Keys : RBegin(t, n, k)
    \/ \E t \in Threads : RLoad(t)
    \/ \E t \in Threads : RStore(t)
    \/ \E t \in Threads : RLock(t)

SpecRegConc == InitReg /\ [][NextRegConc]_vars

(***************************************************************************)
(* Edits of one StepChannel's pattern.                                     *)
(***************************************************************************)
StepNotes == Notes \cup {NoNote}
StepVelocities == Velocities \cup {NoVelocity}

InitChan == InitReg

SetStep(c, step, note, velocity) ==
    /\ stepch' = [stepch EXCEPT ![c] = set_step(@, step, note, velocity)]
    /\ written' = [written EXCEPT ![c] = Put(@, step, <<note, velocity>>)]
    /\ UNCHANGED <<regvars, seq, slast, shist, extvars>>

ResetStep(c, step) ==
    /\ stepch' = [stepch EXCEPT ![c] = reset_step(@, step)]
    /\ written' = [written EXCEPT ![c] = Put(@, step, EmptyStep)]
    /\ UNCHANGED <<regvars, seq, slast, shist, extvars>>

NextChan ==
    \/ \E i \in 0..MaxIndex, n \in StepNotes, v \in StepVelocities :
           SetStep("c1", i, n, v)
    \/ \E i \in 0..MaxIndex : ResetStep("c1", i)

SpecChan == InitChan /\ [][NextChan]_vars

(***************************************************************************)
(* Calls on one StepSequencer made one after the other.  The registry      *)
(* holds "piano" and "guitar"; "bass" was never registered.                *)
(***************************************************************************)
TestPattern == << <<60, 100>>, <<NoNote, NoVelocity>>, <<62, NoVelocity>>, <<64, 70>> >>
ShortPattern == << <<64, 70>>, EmptyStep >>
Patterns == {<<>>, TestPattern, ShortPattern}

Registered ==
    LET a == register_instrument(NewRegistry(MaxChannels), NewEngine,
                                 "piano", "a.sf2", 0, 0)
    IN register_instrument(a.reg, a.engine, "guitar", "b.sf2", 0, 1)

InitSeq ==
    /\ max_channels = MaxChannels
    /\ reg = Registered.reg
    /\ engine = Registered.engine
    /\ last = NoCall
    /\ rpc = Idle
    /\ raced = [p \in Paths |-> FALSE]
    /\ \E p1 \in Patterns, p2 \in {ShortPattern}, i2 \in {"guitar", "bass"} :
          stepch = [c \in ChanIds |->
                      IF c = "c1"
                      THEN [NewStepChannel("piano", 90) EXCEPT !.steps = p1]
                      ELSE [NewStepChannel(i2, 80) EXCEPT !.steps = p2]]
    /\ written = [c \in ChanIds |-> EmptyMap]
    /\ \E n \in StepsArgs : seq = NewSequencer(n, DefaultBpm)
    /\ shist = [advances |-> 0, tempo |-> DefaultBpm]
    /\ slast = [ret |-> 0]
    /\ sthr = NoValue
    /\ proj = NoValue
    /\ chv = NoValue
    /\ variants = NoValue
    /\ run = NoValue

AddChannel(c) ==
    /\ seq' = add_channel(seq, c)
    /\ UNCHANGED <<regvars, stepch, written, slast, shist, extvars>>

RemoveChannel(c) ==
    LET res == remove_channel(seq, engine, c)
    IN /\ seq' = res.seq
       /\ engine' = res.engine
       /\ UNCHANGED <<reg, max_channels, last, rpc, raced, stepch, written, slast, shist, extvars>>

SetTempo(bpm) ==
    LET res == set_tempo(seq, bpm)
    IN /\ seq' = res.seq
       /\ shist' = IF res.raised = NoValue THEN [shist EXCEPT !.tempo = bpm]
                   ELSE shist
       /\ UNCHANGED <<regvars, stepch, written, slast, extvars>>

AdvanceOneStep ==
    /\ shist.advances < MaxAdvances
    /\ LET res == advance_one_step(seq, engine, reg, stepch)
       IN /\ seq' = res.seq
          /\ engine' = res.engine
          /\ slast' = [slast EXCEPT !.ret = res.ret]
    /\ shist' = [shist EXCEPT !.advances = @ + 1]
    /\ UNCHANGED <<reg, max_channels, last, rpc, raced, stepch, written, extvars>>

NextSeq ==
    \/ \E c \in ChanIds : AddChannel(c)
    \/ \E c \in ChanIds : RemoveChannel(c)
    \/ \E b \in TempoArgs : SetTempo(b)
    \/ AdvanceOneStep

SpecSeq == InitSeq /\ [][NextSeq]_vars

(***************************************************************************)
(* The sequencer stepped by hand while instruments are unregistered and    *)
(* the channels are pointed at other instrument names.                     *)
(***************************************************************************)
InitSeqInstr ==
    /\ max_channels = MaxChannels
    /\ reg = Registered.reg
    /\ engine = Registered.engine
    /\ last = NoCall
    /\ rpc = Idle
    /\ raced = [p \in Paths |-> FALSE]
    /\ stepch = [c \in ChanIds |->
                    IF c = "c1"
                    THEN [NewStepChannel("piano", 90) EXCEPT
                             !.steps = << <<60, 100>>, <<62, NoVelocity>> >>]
                    ELSE [NewStepChannel("guitar", 80) EXCEPT !.steps = ShortPattern]]
    /\ written = [c \in ChanIds |-> EmptyMap]
    /\ seq = add_channel(add_channel(NewSequencer(2, DefaultBpm), "c1"), "c2")
    /\ shist = [advances |-> 0, tempo |-> DefaultBpm]
    /\ slast = [ret |-> 0]
    /\ sthr = NoValue
    /\ proj = NoValue
    /\ chv = NoValue
    /\ variants = NoValue
    /\ run = NoValue

SetInstrument(c, name) ==
    /\ stepch' = [stepch EXCEPT ![c] = set_instrument(@, name)]
    /\ UNCHANGED <<regvars, written, seq, slast, shist, extvars>>

NextSeqInstr ==
    \/ AdvanceOneStep
    \/ \E n \in Names : Unregister(n)
    \/ \E c \in ChanIds, n \in Names : SetInstrument(c, n)

SpecSeqInstr == InitSeqInstr /\ [][NextSeqInstr]_vars

(***************************************************************************)
(* A sequencer of 3 steps stepped by hand, with a channel whose pattern is *)
(* longer (4 entries) and one whose pattern is shorter (2 entries).        *)
(***************************************************************************)
InitPhase ==
    /\ max_channels = MaxChannels
    /\ reg = Registered.reg
    /\ engine = Registered.engine
    /\ last = NoCall
    /\ rpc = Idle
    /\ raced = [p \in Paths |-> FALSE]
    /\ stepch = [c \in ChanIds |->
                    IF c = "c1"
                    THEN [NewStepChannel("piano", 90) EXCEPT !.steps = TestPattern]
                    ELSE [NewStepChannel("guitar", 80) EXCEPT !.steps = ShortPattern]]
    /\ written = [c \in ChanIds |-> EmptyMap]
    /\ seq = add_channel(add_channel(NewSequencer(3, DefaultBpm), "c1"), "c2")
    /\ shist = [advances |-> 0, tempo |-> DefaultBpm]
    /\ slast = [ret |-> 0]
    /\ sthr = NoValue
    /\ proj = NoValue
    /\ chv = NoValue
    /\ variants = NoValue
    /\ run = NoValue

NextPhase ==
    \/ AdvanceOneStep
    \/ \E c \in ChanIds : AddChannel(c)
    \/ \E c \in ChanIds : RemoveChannel(c)

SpecPhase == InitPhase /\ [][NextPhase]_vars

(***************************************************************************)
(* The step loop thread against the calling threads.  advance_one_step     *)
(* holds the lock for lines 95-99 only; _play_channel_step (lines 109-134) *)
(* runs without it, one statement at a time, while add_channel,            *)
(* remove_channel and the last part of stop() run under the lock.          *)
(***************************************************************************)
LoopPattern == << <<60, 100>>, <<62, NoVelocity>> >>

\* The locals of the step loop thread; caught counts the exceptions that
\* line 104 caught, ret is what the last advance_one_step returned and
\* stop_offs the number of note-offs the last stop() sent.
NoLoop == [pc |-> "none", snapshot |-> <<>>, step_index |-> 0, step_duration |-> 0,
           after |-> "next", offs |-> <<>>, midi_channel |-> NoChannel]

NewThreads == [stop_event |-> FALSE, thread |-> "none", cpc |-> "idle",
               loop |-> NoLoop, advances |-> 0, caught |-> 0, ret |-> 0,
               stop_offs |-> 0]

\* Lines 59-62.
start(q, t) ==
    [seq |-> [q EXCEPT !.is_running = TRUE],
     thr |-> [t EXCEPT !.stop_event = FALSE, !.thread = "alive",
                       !.loop = [NoLoop EXCEPT !.pc = "top"]]]

\* Lines 68-69.
stop_signal(q, t) ==
    [seq |-> [q EXCEPT !.is_running = FALSE],
     thr |-> [t EXCEPT !.stop_event = TRUE]]

RECURSIVE StopAll(_, _, _)
StopAll(q, e, chans) ==
    IF chans = <<>> THEN [seq |-> q, engine |-> e]
    ELSE LET st == stop_active_notes(q, e, Head(chans))
         IN StopAll(st.seq, st.engine, Tail(chans))

\* The notes are released but the step index is left where it was.
stop_locked_KeepsStep(q, e) == StopAll(q, e, q.channels)

\* Lines 74-77.
stop_locked(q, e) ==
    LET st == StopAll(q, e, q.channels)
    IN [seq |-> [st.seq EXCEPT !.current_step = 0], engine |-> st.engine]

\* Lines 101 and 107: the next channel of the snapshot, or the return.
NextChannel(t) ==
    LET rest == Tail(t.loop.snapshot)
    IN IF rest = <<>>
       THEN [t EXCEPT !.loop.snapshot = rest, !.loop.pc = "top",
                      !.ret = t.loop.step_duration]
       ELSE [t EXCEPT !.loop.snapshot = rest, !.loop.pc = "steps"]

\* The exception ends the whole iteration and the thread with it.
OnException_Aborts(t) ==
    [t EXCEPT !.caught = @ + 1, !.loop.pc = "none", !.thread = "exited"]

\* Lines 104-105: the exception is logged and the for loop goes on.
OnException(t) == NextChannel([t EXCEPT !.caught = @ + 1])

\* What follows _stop_active_notes: the return of line 113 or line 120.
AfterStop(t) ==
    IF t.loop.after = "next" THEN NextChannel(t) ELSE [t EXCEPT !.loop.pc = "lookup"]

InitSeqConc ==
    /\ max_channels = MaxChannels
    /\ reg = Registered.reg
    /\ engine = Registered.engine
    /\ last = NoCall
    /\ rpc = Idle
    /\ raced = [p \in Paths |-> FALSE]
    /\ stepch = [c \in ChanIds |->
                    IF c = "c1"
                    THEN [NewStepChannel("piano", 90) EXCEPT !.steps = LoopPattern]
                    ELSE [NewStepChannel("guitar", 80) EXCEPT !.steps = ShortPattern]]
    /\ written = [c \in ChanIds |-> EmptyMap]
    /\ seq = add_channel(add_channel(NewSequencer(2, DefaultBpm), "c1"), "c2")
    /\ shist = NoValue
    /\ slast = NoValue
    /\ sthr = NewThreads
    /\ proj = NoValue
    /\ chv = NoValue
    /\ variants = NoValue
    /\ run = NoValue

seqframe == <<reg, max_channels, last, rpc, raced, stepch, written, slast, shist, proj, chv,
              variants, run>>

\* start(), lines 55-62.
Start ==
    /\ sthr.cpc = "idle"
    /\ ~seq.is_running
    /\ LET res == start(seq, sthr)
       IN seq' = res.seq /\ sthr' = res.thr
    /\ UNCHANGED <<engine, seqframe>>

\* stop() up to the join, lines 65-71.
StopBegin ==
    /\ sthr.cpc = "idle"
    /\ seq.is_running
    /\ LET res == stop_signal(seq, sthr)
       IN seq' = res.seq /\ sthr' = [res.thr EXCEPT !.cpc = "join"]
    /\ UNCHANGED <<engine, seqframe>>

\* stop() from the return of the join, lines 71-77.
StopFinish ==
    /\ sthr.cpc = "join"
    /\ sthr.thread = "exited"
    /\ LET res == stop_locked(seq, engine)
       IN seq' = res.seq /\ engine' = res.engine
    /\ sthr' = [sthr EXCEPT !.cpc = "idle", !.thread = "none",
                            !.stop_offs = Len(engine'.note_events)
                                          - Len(engine.note_events)]
    /\ UNCHANGED seqframe

\* remove_channel() called by another thread.
CRemoveChannel(c) ==
    /\ LET res == remove_channel(seq, engine, c)
       IN seq' = res.seq /\ engine' = res.engine
    /\ UNCHANGED <<sthr, seqframe>>

\* add_channel() called by another thread.
CAddChannel(c) ==
    /\ seq' = add_channel(seq, c)
    /\ UNCHANGED <<engine, sthr, seqframe>>

\* Lines 80 and 85-86: the loop leaves when the event is set.
LoopExit ==
    /\ sthr.thread = "alive"
    /\ sthr.loop.pc = "top"
    /\ sthr.stop_event
    /\ sthr' = [sthr EXCEPT !.thread = "exited", !.loop.pc = "none"]
    /\ UNCHANGED <<seq, engine, seqframe>>

\* Lines 95-99, under the lock.
LoopLock ==
    /\ sthr.thread = "alive"
    /\ sthr.loop.pc = "top"
    /\ ~sthr.stop_event
    /\ sthr.advances < MaxLoopSteps
    /\ seq' = [seq EXCEPT !.current_step = NextStep(seq)]
    /\ LET t == [sthr EXCEPT !.advances = @ + 1,
                             !.loop.snapshot = seq.channels,
                             !.loop.step_index = seq.current_step,
                             !.loop.step_duration = seq.step_duration]
       IN sthr' = IF seq.channels = <<>>
                  THEN [t EXCEPT !.ret = seq.step_duration]
                  ELSE [t EXCEPT !.loop.pc = "steps"]
    /\ UNCHANGED <<engine, seqframe>>

\* Lines 110-115: the pattern is read.
LoopSteps ==
    /\ sthr.loop.pc = "steps"
    /\ LET c == Head(sthr.loop.snapshot)
       IN sthr' = [sthr EXCEPT !.loop.pc = "active",
                               !.loop.after = IF stepch[c].steps = <<>>
                                              THEN "next" ELSE "step"]
    /\ UNCHANGED <<seq, engine, seqframe>>

\* Lines 137-141: the active set is fetched and copied.
LoopActive ==
    /\ sthr.loop.pc = "active"
    /\ LET c == Head(sthr.loop.snapshot)
       IN sthr' = IF c \notin DOMAIN seq.active_notes \/ seq.active_notes[c] = {}
                  THEN AfterStop(sthr)
                  ELSE [sthr EXCEPT !.loop.pc = "off",
                                    !.loop.offs = ListOf(seq.active_notes[c])]
    /\ UNCHANGED <<seq, engine, seqframe>>

\* Line 142.
LoopOff ==
    /\ sthr.loop.pc = "off"
    /\ LET x == Head(sthr.loop.offs)
       IN engine' = synch_noteoff(engine, x[1], x[2])
    /\ sthr' = [sthr EXCEPT !.loop.pc = "discard"]
    /\ UNCHANGED <<seq, seqframe>>

\* Line 143; a set that remove_channel took out of the table is empty by then.
LoopDiscard ==
    /\ sthr.loop.pc = "discard"
    /\ LET c == Head(sthr.loop.snapshot)
           x == Head(sthr.loop.offs)
           rest == Tail(sthr.loop.offs)
       IN /\ seq' = IF c \in DOMAIN seq.active_notes
                    THEN [seq EXCEPT !.active_notes[c] = @ \ {x}]
                    ELSE seq
          /\ sthr' = IF rest = <<>>
                     THEN AfterStop([sthr EXCEPT !.loop.offs = rest])
                     ELSE [sthr EXCEPT !.loop.offs = rest, !.loop.pc = "off"]
    /\ UNCHANGED <<engine, seqframe>>

\* Lines 120-130.
LoopLookup ==
    /\ sthr.loop.pc = "lookup"
    /\ LET sc == stepch[Head(sthr.loop.snapshot)]
           step == StepAt(sc.steps, sthr.loop.step_index)
           midi_channel == get_instrument(reg, sc.instrument_name)
       IN sthr' = IF step = EmptyStep THEN NextChannel(sthr)
                  ELSE IF step[1] = NoNote \/ midi_channel = NoChannel
                  THEN NextChannel(sthr)
                  ELSE [sthr EXCEPT !.loop.pc = "noteon",
                                    !.loop.midi_channel = midi_channel]
    /\ UNCHANGED <<seq, engine, seqframe>>

\* Lines 132-133.
LoopNoteOn ==
    /\ sthr.loop.pc = "noteon"
    /\ LET sc == stepch[Head(sthr.loop.snapshot)]
           step == StepAt(sc.steps, sthr.loop.step_index)
       IN engine' = synch_noteon(engine, sthr.loop.midi_channel, step[1],
                                 FinalVelocity(step[2], sc.volume))
    /\ sthr' = [sthr EXCEPT !.loop.pc = "add"]
    /\ UNCHANGED <<seq, seqframe>>

\* Line 134: the table is indexed again; a removed channel gives KeyError.
LoopAdd ==
    /\ sthr.loop.pc = "add"
    /\ LET c == Head(sthr.loop.snapshot)
           step == StepAt(stepch[c].steps, sthr.loop.step_index)
       IN IF c \in DOMAIN seq.active_notes
          THEN /\ seq' = [seq EXCEPT !.active_notes[c] =
                             @ \cup {<<sthr.loop.midi_channel, step[1]>>}]
               /\ sthr' = NextChannel(sthr)
          ELSE /\ seq' = seq
               /\ sthr' = OnException(sthr)
    /\ UNCHANGED <<engine, seqframe>>

NextSeqConc ==
    \/ Start
    \/ StopBegin
    \/ StopFinish
    \/ \E c \in ChanIds : CRemoveChannel(c)
    \/ \E c \in ChanIds : CAddChannel(c)
    \/ LoopExit
    \/ LoopLock
    \/ LoopSteps
    \/ LoopActive
    \/ LoopOff
    \/ LoopDiscard
    \/ LoopLookup
    \/ LoopNoteOn
    \/ LoopAdd

SpecSeqConc == InitSeqConc /\ [][NextSeqConc]_vars

(***************************************************************************)
(* Project: play(), stop(), the tick-dispatch thread and the worker pool.  *)
(* One thread calls play() and stop().  A tick() is taken from the pool's  *)
(* queue by a free worker and runs in it until it returns; a channel of    *)
(* kind "raises" is a metronome whose instrument name is not registered    *)
(* (its _synth is None), a channel of kind "stuck" never returns.          *)
(***************************************************************************)
ProjChannels == {"a", "b", "s", "m"}
Kinds == [a |-> "ok", b |-> "raises", s |-> "stuck", m |-> "metronome"]
\* The channel lists a project is given before play().
ProjChannelLists == {<<"a">>, <<"b", "a">>, <<"s", "a">>}
\* Line 115: the least number of workers of the pool.
MinWorkers == 4
\* StepSequencer.__init__, line 12: the default number of steps.
DefaultSteps == 32

Zeros == [c \in ProjChannels |-> 0]

\* Lines 13-27; the counters record the calls made so far.
NewProject(channels) ==
    [bpm |-> DefaultBpm,
     seconds_per_beat |-> StepDuration(DefaultBpm),
     channels |-> channels,
     is_playing |-> FALSE,
     tick_thread |-> "none",
     executor |-> FALSE,
     workers |-> 0,
     queue |-> <<>>,
     running |-> Zeros,
     chan_playing |-> [c \in ProjChannels |-> FALSE],
     tpc |-> "none",
     snapshot |-> <<>>,
     cpc |-> "idle",
     last_op |-> "none",
     calls |-> 0,
     beat |-> 0,
     submitted |-> 0,
     ticks |-> Zeros,
     raised |-> 0,
     engine_starts |-> 0,
     engine_stops |-> 0,
     chan_plays |-> 0,
     pools |-> 0,
     loops |-> 0]

\* The early return left out: play() starts everything again.
play_NoGuard(p, q, t) ==
    LET q1 == set_tempo(q, p.bpm).seq
        st == IF q1.is_running THEN [seq |-> q1, thr |-> t] ELSE start(q1, t)
    IN [proj |-> [p EXCEPT !.engine_starts = @ + 1,
                           !.chan_playing = [c \in ProjChannels |->
                                                @[c] \/ c \in Range(p.channels)],
                           !.chan_plays = @ + Len(p.channels),
                           !.workers = Max(MinWorkers, Max(Len(p.channels), 1)),
                           !.executor = TRUE,
                           !.queue = <<>>,
                           !.running = Zeros,
                           !.pools = @ + 1,
                           !.is_playing = TRUE,
                           !.tick_thread = "alive",
                           !.tpc = "check",
                           !.loops = @ + 1],
        seq |-> st.seq,
        thr |-> st.thr]

\* The sequencer is started with the tempo it has.
play_KeepsTempo(p, q, t) ==
    IF p.is_playing THEN [proj |-> p, seq |-> q, thr |-> t]
    ELSE LET st == IF q.is_running THEN [seq |-> q, thr |-> t] ELSE start(q, t)
         IN [proj |-> [p EXCEPT !.engine_starts = @ + 1,
                                !.chan_playing = [c \in ProjChannels |->
                                                     @[c] \/ c \in Range(p.channels)],
                                !.chan_plays = @ + Len(p.channels),
                                !.workers = Max(MinWorkers, Max(Len(p.channels), 1)),
                                !.executor = TRUE,
                                !.queue = <<>>,
                                !.running = Zeros,
                                !.pools = @ + 1,
                                !.is_playing = TRUE,
                                !.tick_thread = "alive",
                                !.tpc = "check",
                                !.loops = @ + 1],
             seq |-> st.seq,
             thr |-> st.thr]

\* Lines 97-120.
play(p, q, t) ==
    IF p.is_playing THEN [proj |-> p, seq |-> q, thr |-> t]
    ELSE LET q1 == set_tempo(q, p.bpm).seq
             st == IF q1.is_running THEN [seq |-> q1, thr |-> t] ELSE start(q1, t)
         IN [proj |-> [p EXCEPT !.engine_starts = @ + 1,
                                !.chan_playing = [c \in ProjChannels |->
                                                     @[c] \/ c \in Range(p.channels)],
                                !.chan_plays = @ + Len(p.channels),
                                !.workers = Max(MinWorkers, Max(Len(p.channels), 1)),
                                !.executor = TRUE,
                                !.queue = <<>>,
                                !.running = Zeros,
                                !.pools = @ + 1,
                                !.is_playing = TRUE,
                                !.tick_thread = "alive",
                                !.tpc = "check",
                                !.loops = @ + 1],
             seq |-> st.seq,
             thr |-> st.thr]

\* stop() goes on without waiting for the tick thread.
Joined_NoWait(p) == TRUE

\* Lines 130-131: join() returns once the tick thread has ended.
Joined(p) == p.tick_thread # "alive"

\* Lines 134-136: queued ticks are cancelled, running ones are left alone
\* in the workers of the pool that is dropped.
shutdown(p) == [p EXCEPT !.executor = FALSE, !.queue = <<>>, !.running = Zeros]

\* Lines 138-143: InstrumentChannel.stop of every channel.
stop_channels(p) ==
    [p EXCEPT !.chan_playing = [c \in ProjChannels |->
                                   @[c] /\ c \notin Range(p.channels)]]

\* The exception leaves the worker: the pool and the ticker are torn down.
safe_tick_Propagates(p, c) ==
    [p EXCEPT !.running[c] = @ - 1,
              !.raised = IF Kinds[c] = "raises" THEN @ + 1 ELSE @,
              !.queue = IF Kinds[c] = "raises" THEN <<>> ELSE @,
              !.tpc = IF Kinds[c] = "raises" THEN "none" ELSE @]

\* Lines 91-95: the tick ends, by a return or by an exception that is logged.
safe_tick(p, c) ==
    [p EXCEPT !.running[c] = @ - 1,
              !.raised = IF Kinds[c] = "raises" THEN @ + 1 ELSE @]

RunningTotal(p) == p.running["a"] + p.running["b"] + p.running["s"]

InitProj ==
    /\ max_channels = MaxChannels
    /\ reg = NewRegistry(MaxChannels)
    /\ engine = NewEngine
    /\ last = NoCall
    /\ rpc = Idle
    /\ raced = [p \in Paths |-> FALSE]
    /\ stepch = [c \in ChanIds |-> NewStepChannel("piano", 80)]
    /\ written = [c \in ChanIds |-> EmptyMap]
    /\ seq = NewSequencer(DefaultSteps, DefaultBpm)
    /\ shist = NoValue
    /\ slast = NoValue
    /\ sthr = NewThreads
    /\ \E l \in ProjChannelLists : proj = NewProject(l)
    /\ chv = NoValue
    /\ variants = NoValue
    /\ run = NoValue

projframe == <<reg, engine, max_channels, last, rpc, raced, stepch, written, slast, shist, chv,
               variants, run>>

PPlay ==
    /\ proj.cpc = "idle"
    /\ proj.calls < MaxCalls
    /\ LET res == play(proj, seq, sthr)
       IN /\ proj' = [res.proj EXCEPT !.calls = @ + 1, !.last_op = "play"]
          /\ seq' = res.seq
          /\ sthr' = res.thr
    /\ UNCHANGED projframe

\* Lines 122-131: the flag is cleared and the tick thread is joined.
PStopBegin ==
    /\ proj.cpc = "idle"
    /\ proj.calls < MaxCalls
    /\ proj' = [proj EXCEPT !.is_playing = FALSE, !.cpc = "join",
                            !.calls = @ + 1, !.last_op = "stop"]
    /\ UNCHANGED <<seq, sthr, projframe>>

\* The pool is shut down with wait=True: stop() goes on when no tick runs.
PStopChannels_WaitsForTicks ==
    /\ proj.cpc = "join"
    /\ Joined(proj)
    /\ RunningTotal(proj) = 0
    /\ proj' = [stop_channels(shutdown(proj)) EXCEPT !.tick_thread = "none",
                                                     !.cpc = "seqjoin"]
    /\ IF seq.is_running
       THEN LET res == stop_signal(seq, sthr)
            IN seq' = res.seq /\ sthr' = [res.thr EXCEPT !.cpc = "join"]
       ELSE UNCHANGED <<seq, sthr>>
    /\ UNCHANGED projframe

\* Lines 131-145: from the return of the join to the sequencer's join.
PStopChannels ==
    /\ proj.cpc = "join"
    /\ Joined(proj)
    /\ proj' = [stop_channels(shutdown(proj)) EXCEPT !.tick_thread = "none",
                                                     !.cpc = "seqjoin"]
    /\ IF seq.is_running
       THEN LET res == stop_signal(seq, sthr)
            IN seq' = res.seq /\ sthr' = [res.thr EXCEPT !.cpc = "join"]
       ELSE UNCHANGED <<seq, sthr>>
    /\ UNCHANGED projframe

\* Lines 145-146: the sequencer's stop() has returned.
PStopEnd ==
    /\ proj.cpc = "seqjoin"
    /\ sthr.cpc = "idle"
    /\ proj' = [proj EXCEPT !.cpc = "idle", !.engine_stops = @ + 1]
    /\ UNCHANGED <<seq, sthr, projframe>>

\* Line 70: the loop ends when the flag is down.
TExit ==
    /\ proj.tick_thread = "alive"
    /\ proj.tpc = "check"
    /\ ~proj.is_playing
    /\ proj' = [proj EXCEPT !.tick_thread = "exited", !.tpc = "none", !.loops = @ - 1]
    /\ UNCHANGED <<seq, sthr, projframe>>

\* Lines 70-73: a beat begins with the snapshot of the channels.
TSnapshot ==
    /\ proj.tick_thread = "alive"
    /\ proj.tpc = "check"
    /\ proj.is_playing
    /\ proj.beat < MaxBeats
    /\ proj' = [proj EXCEPT !.beat = @ + 1, !.snapshot = proj.channels,
                            !.tpc = IF proj.channels = <<>> THEN "wait" ELSE "submit"]
    /\ UNCHANGED <<seq, sthr, projframe>>

\* Lines 76-77: one tick is handed to the pool.
TSubmit ==
    /\ proj.tpc = "submit"
    /\ proj' = [proj EXCEPT !.queue = Append(@, Head(proj.snapshot)),
                            !.submitted = @ + 1,
                            !.snapshot = Tail(@),
                            !.tpc = IF Tail(proj.snapshot) = <<>> THEN "wait" ELSE "submit"]
    /\ UNCHANGED <<seq, sthr, projframe>>

\* The wait has no timeout: it ends when no tick is queued or running.
TWait_UntilDone ==
    /\ proj.tpc = "wait"
    /\ proj.queue = <<>>
    /\ RunningTotal(proj) = 0
    /\ proj' = [proj EXCEPT !.tpc = "check"]
    /\ UNCHANGED <<seq, sthr, projframe>>

\* Lines 79-89: the wait ends with the ticks or with the beat.
TWait ==
    /\ proj.tpc = "wait"
    /\ proj' = [proj EXCEPT !.tpc = "check"]
    /\ UNCHANGED <<seq, sthr, projframe>>

\* A free worker takes the oldest queued tick and calls _safe_tick.
WTake ==
    /\ proj.executor
    /\ proj.queue # <<>>
    /\ RunningTotal(proj) < proj.workers
    /\ LET c == Head(proj.queue)
       IN proj' = [proj EXCEPT !.queue = Tail(@), !.running[c] = @ + 1,
                               !.ticks[c] = @ + 1]
    /\ UNCHANGED <<seq, sthr, projframe>>

WReturn(c) ==
    /\ proj.running[c] > 0
    /\ Kinds[c] # "stuck"
    /\ proj' = safe_tick(proj, c)
    /\ UNCHANGED <<seq, sthr, projframe>>

NextProj ==
    \/ PPlay
    \/ PStopBegin
    \/ PStopChannels
    \/ PStopEnd
    \/ TExit
    \/ TSnapshot
    \/ TSubmit
    \/ TWait
    \/ WTake
    \/ \E c \in ProjChannels : WReturn(c)
    \/ LoopLock
    \/ LoopExit
    \/ StopFinish

SpecProj == InitProj /\ [][NextProj]_vars

\* The tick thread, the sequencer's loop thread and the thread inside stop()
\* are threads of their own: each statement of theirs that can be executed is
\* executed in the end.  Nothing is assumed of the workers.
SpecProjLive ==
    /\ SpecProj
    /\ WF_vars(TExit)
    /\ WF_vars(TSnapshot)
    /\ WF_vars(TSubmit)
    /\ WF_vars(TWait)
    /\ WF_vars(PStopChannels)
    /\ WF_vars(PStopEnd)
    /\ WF_vars(LoopLock)
    /\ WF_vars(LoopExit)
    /\ WF_vars(StopFinish)

(***************************************************************************)
(* Channels attached to and detached from a project, also while it plays.  *)
(* The list may hold a channel more than once: add_channel does not look.  *)
(***************************************************************************)
AttachArgs == {"b"}

\* The channel is started when it is attached to a playing project.
project_add_channel_Plays(p, c) ==
    [p EXCEPT !.channels = Append(@, c),
              !.chan_playing[c] = @ \/ p.is_playing]

\* Project.add_channel, lines 53-56.
project_add_channel(p, c) == [p EXCEPT !.channels = Append(@, c)]

\* Project.remove_channel, lines 58-62: list.remove takes the first one out.
project_remove_channel(p, c) ==
    IF c \in Range(p.channels)
    THEN LET k == CHOOSE i \in DOMAIN p.channels :
                     p.channels[i] = c /\ \A j \in 1..(i - 1) : p.channels[j] # c
         IN [p EXCEPT !.channels = SubSeq(@, 1, k - 1) \o SubSeq(@, k + 1, Len(@))]
    ELSE p

InitAttach ==
    /\ max_channels = MaxChannels
    /\ reg = NewRegistry(MaxChannels)
    /\ engine = NewEngine
    /\ last = NoCall
    /\ rpc = Idle
    /\ raced = [p \in Paths |-> FALSE]
    /\ stepch = [c \in ChanIds |-> NewStepChannel("piano", 80)]
    /\ written = [c \in ChanIds |-> EmptyMap]
    /\ seq = NewSequencer(DefaultSteps, DefaultBpm)
    /\ shist = NoValue
    /\ slast = NoValue
    /\ sthr = NewThreads
    /\ proj = NewProject(<<"a">>)
    /\ chv = NoValue
    /\ variants = NoValue
    /\ run = NoValue

PAddChannel(c) ==
    /\ Len(proj.channels) < MaxAttached
    /\ proj' = project_add_channel(proj, c)
    /\ UNCHANGED <<seq, sthr, projframe>>

PRemoveChannel(c) ==
    /\ proj' = project_remove_channel(proj, c)
    /\ UNCHANGED <<seq, sthr, projframe>>

\* The sequencer has no channel here and its loop is left where start() put
\* it; the ticks handed to the pool stay in its queue until the pool is shut
\* down; the beats are counted up to MaxAttachBeats.
NextAttach ==
    \/ \E c \in AttachArgs : PAddChannel(c)
    \/ \E c \in AttachArgs : PRemoveChannel(c)
    \/ PPlay
    \/ PStopBegin
    \/ PStopChannels
    \/ PStopEnd
    \/ TExit
    \/ proj.beat < MaxAttachBeats /\ TSnapshot
    \/ TSubmit
    \/ TWait
    \/ LoopExit
    \/ StopFinish

SpecAttach == InitAttach /\ [][NextAttach]_vars

(***************************************************************************)
(* A project of some bpm whose sequencer, got with get_sequencer(), is     *)
(* given other tempos between and during the project's play() and stop().  *)
(***************************************************************************)
ProjectBpms == {60, 120}

\* Project.__init__, lines 13-20, with bpm as the argument.
NewProjectAt(bpm, channels) ==
    [NewProject(channels) EXCEPT !.bpm = bpm, !.seconds_per_beat = StepDuration(bpm)]

InitTempo ==
    /\ max_channels = MaxChannels
    /\ reg = NewRegistry(MaxChannels)
    /\ engine = NewEngine
    /\ last = NoCall
    /\ rpc = Idle
    /\ raced = [p \in Paths |-> FALSE]
    /\ stepch = [c \in ChanIds |-> NewStepChannel("piano", 80)]
    /\ written = [c \in ChanIds |-> EmptyMap]
    /\ slast = [ret |-> 0]
    /\ sthr = NewThreads
    /\ \E bpm \in ProjectBpms :
          /\ seq = NewSequencer(DefaultSteps, bpm)
          /\ shist = [advances |-> 0, tempo |-> bpm]
          /\ proj = NewProjectAt(bpm, <<"a">>)
    /\ chv = NoValue
    /\ variants = NoValue
    /\ run = NoValue

NextTempo ==
    \/ \E bpm \in TempoArgs : SetTempo(bpm)
    \/ PPlay
    \/ PStopBegin
    \/ PStopChannels
    \/ PStopEnd
    \/ TExit
    \/ LoopLock
    \/ LoopExit
    \/ StopFinish

SpecTempo == InitTempo /\ [][NextTempo]_vars

(***************************************************************************)
(* A backend that fails: start() raises in Project.play(), load_soundfont  *)
(* raises in register_instrument.  The project's one instrument is         *)
(* registered before the project's first play() or stop().                 *)
(***************************************************************************)
BackendError == "BackendError"

\* The sequencer is started before the engine is.
play_start_raises_AfterSequencer(p, q, t) ==
    IF p.is_playing THEN [proj |-> p, seq |-> q, thr |-> t, raised |-> NoValue]
    ELSE LET st == start(set_tempo(q, p.bpm).seq, t)
         IN [proj |-> [p EXCEPT !.engine_starts = @ + 1],
             seq |-> st.seq, thr |-> st.thr, raised |-> BackendError]

\* Project.play, lines 99-104, when soundengine.start() raises: the call of
\* line 104 is the first statement after the early return.
play_start_raises(p, q, t) ==
    IF p.is_playing THEN [proj |-> p, seq |-> q, thr |-> t, raised |-> NoValue]
    ELSE [proj |-> [p EXCEPT !.engine_starts = @ + 1],
          seq |-> q, thr |-> t, raised |-> BackendError]

\* The engine's load_soundfont raises: nothing is loaded and no load is
\* counted.
load_soundfont_raises(e, path) == e

\* register_instrument, lines 74-77, when load_soundfont raises; a cached
\* path is not loaded, so the call goes as ever.
register_load_raises(r, e, name, path, bank, preset) ==
    IF CacheHit(r, path) THEN register_instrument(r, e, name, path, bank, preset)
    ELSE [reg |-> r, engine |-> load_soundfont_raises(e, path), ret |-> NoChannel,
          raised |-> BackendError, log |-> NoValue, calls |-> <<"load_soundfont">>]

InitBackend ==
    /\ max_channels = MaxChannels
    /\ reg = NewRegistry(MaxChannels)
    /\ engine = NewEngine
    /\ last = NoCall
    /\ rpc = Idle
    /\ raced = [p \in Paths |-> FALSE]
    /\ stepch = [c \in ChanIds |-> NewStepChannel("piano", 80)]
    /\ written = [c \in ChanIds |-> EmptyMap]
    /\ seq = NewSequencer(DefaultSteps, DefaultBpm)
    /\ shist = NoValue
    /\ slast = NoValue
    /\ sthr = NewThreads
    /\ proj = NewProject(<<"a">>)
    /\ chv = NoValue
    /\ variants = NoValue
    /\ run = NoValue

\* No play() or stop() has been called yet.
Setup == proj.calls = 0

BRegister(name, path, bank, preset) ==
    /\ Setup
    /\ Register(name, path, bank, preset)

BRegisterFails(name, path, bank, preset) ==
    /\ Setup
    /\ LET res == register_load_raises(reg, engine, name, path, bank, preset)
       IN /\ reg' = res.reg
          /\ engine' = res.engine
          /\ last' = [op |-> "register", name |-> name, key |-> <<path, bank, preset>>,
                      ret |-> res.ret, raised |-> res.raised, log |-> res.log,
                      calls |-> res.calls]
    /\ UNCHANGED <<max_channels, rpc, raced, seqvars, extvars>>

PPlayFails ==
    /\ proj.cpc = "idle"
    /\ proj.calls < MaxCalls
    /\ LET res == play_start_raises(proj, seq, sthr)
       IN /\ proj' = [res.proj EXCEPT
                         !.calls = @ + 1,
                         !.last_op = IF res.raised = NoValue THEN "play"
                                     ELSE "play raised"]
          /\ seq' = res.seq
          /\ sthr' = res.thr
    /\ UNCHANGED projframe

NextBackend ==
    \/ \E k \in Keys : BRegister("piano", k[1], k[2], k[3])
    \/ \E k \in Keys : BRegisterFails("piano", k[1], k[2], k[3])
    \/ PPlayFails
    \/ NextProj

SpecBackend == InitBackend /\ [][NextBackend]_vars

(***************************************************************************)
(* A Project with a FreeMetronomeChannel and a step channel.  The tick of  *)
(* the metronome runs in a worker, each note-off timer in a thread of its  *)
(* own and stop() in the calling thread, one statement at a time; the      *)
(* sequencer's loop thread has the sequencer to itself until it is joined. *)
(***************************************************************************)
NoTimer == 0
\* FreeMetronomeChannel.tick, lines 23 and 27: the note of every beat.
BeatNote == 60
\* FreeMetronomeChannel.__init__, line 8: volume and accent_volume.
MetronomeVolume == 100
AccentVolume == 127
\* Project.__init__, line 13.
BeatsPerMeasure == 4

\* Lines 8-13, with the channel that "guitar" resolves to; tick is the
\* position of the tick() in flight, stopping that of stop(), timers the
\* state of every threading.Timer made so far.
NewMetronome ==
    [is_playing |-> FALSE,
     channel |-> get_instrument(Registered.reg, "guitar"),
     volume |-> MetronomeVolume,
     accent_volume |-> AccentVolume,
     tick_count |-> 0,
     noteoff_timer |-> NoTimer,
     active_note |-> NoNote,
     tick |-> "none",
     velocity |-> NoVelocity,
     timers |-> <<>>]

\* Lines 52-54; cancel() stops a timer that has not fired yet.
cancel_timer(m) ==
    IF m.noteoff_timer = NoTimer THEN m
    ELSE [m EXCEPT !.timers[m.noteoff_timer] =
                       IF @ = "waiting" THEN "cancelled" ELSE @,
                   !.noteoff_timer = NoTimer]

\* The count is not taken modulo the beats of a measure.
next_beat_NoWrap(m) ==
    LET n == m.tick_count + 1
    IN [m EXCEPT !.tick_count = n,
                 !.velocity = IF n = 1 THEN (m.accent_volume * m.volume) \div 100
                              ELSE m.volume]

\* Lines 19-28.
next_beat(m) ==
    LET n == (m.tick_count % BeatsPerMeasure) + 1
    IN [m EXCEPT !.tick_count = n,
                 !.velocity = IF n = 1 THEN (m.accent_volume * m.volume) \div 100
                              ELSE m.volume]

\* Lines 34-37.
start_timer(m) ==
    [m EXCEPT !.timers = Append(@, "waiting"), !.noteoff_timer = Len(m.timers) + 1]

InitMet ==
    /\ max_channels = MaxChannels
    /\ reg = Registered.reg
    /\ engine = Registered.engine
    /\ last = NoCall
    /\ rpc = Idle
    /\ raced = [p \in Paths |-> FALSE]
    /\ stepch = [c \in ChanIds |->
                    [NewStepChannel("piano", 90) EXCEPT !.steps = LoopPattern]]
    /\ written = [c \in ChanIds |-> EmptyMap]
    /\ seq = add_channel(NewSequencer(DefaultSteps, DefaultBpm), "c1")
    /\ shist = NoValue
    /\ slast = NoValue
    /\ sthr = NewThreads
    /\ proj = NewProject(<<"m">>)
    /\ chv = NewMetronome
    /\ variants = NoValue
    /\ run = NoValue

metframe == <<reg, max_channels, last, rpc, raced, stepch, written, slast, shist, variants,
              run>>

\* Project.play with InstrumentChannel.play of the metronome, lines 30-34.
MPlay ==
    /\ proj.cpc = "idle"
    /\ proj.calls < MaxCalls
    /\ LET res == play(proj, seq, sthr)
       IN /\ proj' = [res.proj EXCEPT !.calls = @ + 1, !.last_op = "play"]
          /\ seq' = res.seq
          /\ sthr' = res.thr
          /\ chv' = IF proj.is_playing THEN chv ELSE [chv EXCEPT !.is_playing = TRUE]
    /\ UNCHANGED <<engine, metframe>>

MStopBegin ==
    /\ proj.cpc = "idle"
    /\ proj.calls < MaxCalls
    /\ proj' = [proj EXCEPT !.is_playing = FALSE, !.cpc = "join",
                            !.calls = @ + 1, !.last_op = "stop"]
    /\ UNCHANGED <<seq, sthr, engine, chv, metframe>>

\* Project.stop, lines 131-141.
MStopShutdown ==
    /\ proj.cpc = "join"
    /\ Joined(proj)
    /\ proj' = [shutdown(proj) EXCEPT !.tick_thread = "none", !.cpc = "cancel"]
    /\ UNCHANGED <<seq, sthr, engine, chv, metframe>>

\* FreeMetronomeChannel.stop, lines 41 and 52-54.
MStopCancelTimer ==
    /\ proj.cpc = "cancel"
    /\ chv' = cancel_timer(chv)
    /\ proj' = [proj EXCEPT !.cpc = IF chv.active_note # NoNote THEN "off" ELSE "flag"]
    /\ UNCHANGED <<seq, sthr, engine, metframe>>

\* Line 56.
MStopOff ==
    /\ proj.cpc = "off"
    /\ engine' = synch_noteoff(engine, chv.channel, chv.active_note)
    /\ proj' = [proj EXCEPT !.cpc = "clear"]
    /\ UNCHANGED <<seq, sthr, chv, metframe>>

\* Line 57.
MStopClear ==
    /\ proj.cpc = "clear"
    /\ chv' = [chv EXCEPT !.active_note = NoNote]
    /\ proj' = [proj EXCEPT !.cpc = "flag"]
    /\ UNCHANGED <<seq, sthr, engine, metframe>>

\* Lines 42-43 and Project.stop, line 145, up to the sequencer's join.
MStopFlag ==
    /\ proj.cpc = "flag"
    /\ chv' = [chv EXCEPT !.tick_count = 0, !.is_playing = FALSE]
    /\ proj' = [stop_channels(proj) EXCEPT !.cpc = "seqjoin"]
    /\ IF seq.is_running
       THEN LET res == stop_signal(seq, sthr)
            IN seq' = res.seq /\ sthr' = [res.thr EXCEPT !.cpc = "join"]
       ELSE UNCHANGED <<seq, sthr>>
    /\ UNCHANGED <<engine, metframe>>

\* Project.stop, line 146.
MStopEnd ==
    /\ proj.cpc = "seqjoin"
    /\ sthr.cpc = "idle"
    /\ proj' = [proj EXCEPT !.cpc = "idle", !.engine_stops = @ + 1]
    /\ UNCHANGED <<seq, sthr, engine, chv, metframe>>

\* A beat of the tick thread, for as many beats as ticks are followed.
MSnapshot == proj.beat < MaxTicks /\ TSnapshot

\* A worker takes the metronome's tick; one tick is in flight at a time.
MTake ==
    /\ proj.executor
    /\ proj.queue # <<>>
    /\ chv.tick = "none"
    /\ proj.ticks["m"] < MaxTicks
    /\ proj' = [proj EXCEPT !.queue = Tail(@), !.ticks["m"] = @ + 1]
    /\ chv' = [chv EXCEPT !.tick = "begin"]
    /\ UNCHANGED <<seq, sthr, engine, metframe>>

\* tick(), lines 17-28.
MTickBegin ==
    /\ chv.tick = "begin"
    /\ chv' = IF chv.is_playing THEN [next_beat(chv) EXCEPT !.tick = "cancel"]
              ELSE [chv EXCEPT !.tick = "none"]
    /\ UNCHANGED <<proj, seq, sthr, engine, metframe>>

\* Lines 30 and 52-55.
MTickCancelTimer ==
    /\ chv.tick = "cancel"
    /\ chv' = [cancel_timer(chv) EXCEPT
                  !.tick = IF chv.active_note # NoNote THEN "off" ELSE "set"]
    /\ UNCHANGED <<proj, seq, sthr, engine, metframe>>

\* Line 56.
MTickOff ==
    /\ chv.tick = "off"
    /\ engine' = synch_noteoff(engine, chv.channel, chv.active_note)
    /\ chv' = [chv EXCEPT !.tick = "clear"]
    /\ UNCHANGED <<proj, seq, sthr, metframe>>

\* Lines 57 and 31.
MTickSet ==
    /\ chv.tick \in {"clear", "set"}
    /\ chv' = [chv EXCEPT !.active_note = BeatNote, !.tick = "on"]
    /\ UNCHANGED <<proj, seq, sthr, engine, metframe>>

\* Line 32.
MTickOn ==
    /\ chv.tick = "on"
    /\ engine' = synch_noteon(engine, chv.channel, BeatNote, chv.velocity)
    /\ chv' = [chv EXCEPT !.tick = "timer"]
    /\ UNCHANGED <<proj, seq, sthr, metframe>>

\* Lines 34-37.
MTickTimer ==
    /\ chv.tick = "timer"
    /\ chv' = [start_timer(chv) EXCEPT !.tick = "none"]
    /\ UNCHANGED <<proj, seq, sthr, engine, metframe>>

\* The timer's interval has passed and _release_note tests the note, line 46.
TimerFire(i) ==
    /\ chv.timers[i] = "waiting"
    /\ chv' = [chv EXCEPT !.timers[i] =
                  IF chv.active_note = BeatNote THEN "off" ELSE "done"]
    /\ UNCHANGED <<proj, seq, sthr, engine, metframe>>

\* Line 47.
TimerOff(i) ==
    /\ chv.timers[i] = "off"
    /\ engine' = synch_noteoff(engine, chv.channel, BeatNote)
    /\ chv' = [chv EXCEPT !.timers[i] = "clear"]
    /\ UNCHANGED <<proj, seq, sthr, metframe>>

\* Lines 48-49.
TimerClear(i) ==
    /\ chv.timers[i] = "clear"
    /\ chv' = [chv EXCEPT !.timers[i] = "done", !.active_note = NoNote,
                          !.noteoff_timer = NoTimer]
    /\ UNCHANGED <<proj, seq, sthr, engine, metframe>>

\* One pass of the sequencer's loop: advance_one_step, lines 82 and 88-107.
MLoopAdvance ==
    /\ sthr.thread = "alive"
    /\ sthr.loop.pc = "top"
    /\ ~sthr.stop_event
    /\ sthr.advances < MaxLoopSteps
    /\ LET res == advance_one_step(seq, engine, reg, stepch)
       IN /\ seq' = res.seq
          /\ engine' = res.engine
          /\ sthr' = [sthr EXCEPT !.advances = @ + 1, !.ret = res.ret]
    /\ UNCHANGED <<proj, chv, metframe>>

NextMet ==
    \/ MPlay
    \/ MStopBegin
    \/ MStopShutdown
    \/ MStopCancelTimer
    \/ MStopOff
    \/ MStopClear
    \/ MStopFlag
    \/ MStopEnd
    \/ TExit
    \/ MSnapshot
    \/ TSubmit
    \/ TWait
    \/ MTake
    \/ MTickBegin
    \/ MTickCancelTimer
    \/ MTickOff
    \/ MTickSet
    \/ MTickOn
    \/ MTickTimer
    \/ \E i \in 1..MaxTicks : i <= Len(chv.timers) /\ TimerFire(i)
    \/ \E i \in 1..MaxTicks : i <= Len(chv.timers) /\ TimerOff(i)
    \/ \E i \in 1..MaxTicks : i <= Len(chv.timers) /\ TimerClear(i)
    \/ MLoopAdvance
    \/ LoopExit
    \/ StopFinish

SpecMet == InitMet /\ [][NextMet]_vars

(***************************************************************************)
(* The channel variants, each called by one thread: InstrumentChannel      *)
(* (the base, which StepSequencerChannel leaves as it is), FreeMidiChannel *)
(* and FreeMetronomeChannel.  A started reader of the MIDI port handles    *)
(* one message at a time, in its own thread, between and during the calls; *)
(* a timer of the metronome fires between two calls.  The project's        *)
(* sequencer is started and stopped by its own start() and stop().         *)
(***************************************************************************)
VariantKinds == {"midi", "met", "bridge"}
AttributeError == "AttributeError"
\* The types, notes and velocities of the MIDI messages.
MidiTypes == {"note_on", "note_off", "control_change"}
MidiNotes == {60, 62}
MidiVelocities == {0, 100}
NoMessage == [type |-> "none", note |-> NoNote, velocity |-> NoVelocity]

\* InstrumentChannel.play, lines 30-34.
base_play(c) == IF ~c.is_playing THEN [c EXCEPT !.is_playing = TRUE] ELSE c

\* InstrumentChannel.stop, lines 36-40.
base_stop(c) == IF c.is_playing THEN [c EXCEPT !.is_playing = FALSE] ELSE c

\* FreeMidiChannel.__init__, lines 11-14; readers counts the reader threads.
NewFreeMidi ==
    [is_playing |-> FALSE,
     channel |-> get_instrument(Registered.reg, "piano"),
     active_notes |-> {},
     readers |-> 0]

\* FreeMidiChannel.play, lines 16-21.
midi_play(c) ==
    LET b == base_play(c)
    IN IF b.is_playing THEN [b EXCEPT !.readers = @ + 1] ELSE b

\* FreeMidiChannel.stop, lines 23-30: no sound engine has a noteoff method,
\* so the loop raises at the first held note and the set is not cleared.
midi_stop(c) ==
    LET b == base_stop(c)
    IN IF ~b.is_playing /\ b.active_notes # {}
       THEN [chan |-> b, raised |-> AttributeError]
       ELSE [chan |-> b, raised |-> NoValue]

\* FreeMidiChannel._play_midi_message, lines 32-43: the second branch asks
\* for velocity 0 of a note_off message as well.
play_midi_message(c, e, type, note, velocity) ==
    IF type = "note_on" /\ velocity > 0
    THEN IF note \notin c.active_notes
         THEN [chan |-> [c EXCEPT !.active_notes = @ \cup {note}],
               engine |-> synch_noteon(e, c.channel, note, velocity)]
         ELSE [chan |-> c, engine |-> e]
    ELSE IF type \in {"note_off", "note_on"} /\ velocity = 0
    THEN IF note \in c.active_notes
         THEN [chan |-> [c EXCEPT !.active_notes = @ \ {note}],
               engine |-> synch_noteoff(e, c.channel, note)]
         ELSE [chan |-> c, engine |-> e]
    ELSE [chan |-> c, engine |-> e]

\* FreeMetronomeChannel._cancel_pending_release, lines 51-57.
cancel_pending_release(m, e) ==
    [chan |-> [cancel_timer(m) EXCEPT !.active_note = NoNote],
     engine |-> IF m.active_note # NoNote
                THEN synch_noteoff(e, m.channel, m.active_note) ELSE e]

\* FreeMetronomeChannel.tick, lines 15-37.
met_tick(m, e) ==
    IF ~m.is_playing THEN [chan |-> m, engine |-> e]
    ELSE LET b == next_beat(m)
             r == cancel_pending_release(b, e)
         IN [chan |-> start_timer([r.chan EXCEPT !.active_note = BeatNote]),
             engine |-> synch_noteon(r.engine, m.channel, BeatNote, b.velocity)]

\* FreeMetronomeChannel.stop, lines 39-43.
met_stop(m, e) ==
    LET r == cancel_pending_release(m, e)
    IN [chan |-> base_stop([r.chan EXCEPT !.tick_count = 0]), engine |-> r.engine]

\* FreeMetronomeChannel._release_note, lines 45-49, for timer i.
release_note(m, e, i) ==
    IF m.active_note = BeatNote
    THEN [chan |-> [m EXCEPT !.timers[i] = "done", !.active_note = NoNote,
                             !.noteoff_timer = NoTimer],
          engine |-> synch_noteoff(e, m.channel, BeatNote)]
    ELSE [chan |-> [m EXCEPT !.timers[i] = "done"], engine |-> e]

\* A bridge whose play() starts the sequencer as well.
bridge_play_Forwards(c, q, t) ==
    LET r == start(q, t)
    IN [chan |-> base_play(c), seq |-> r.seq, thr |-> r.thr]

\* StepSequencerChannel.play, lines 29-31: nothing but the base's play().
bridge_play(c, q, t) == [chan |-> base_play(c), seq |-> q, thr |-> t]

\* StepSequencerChannel.stop, lines 33-35: nothing but the base's stop().
bridge_stop(c, q, t) == [chan |-> base_stop(c), seq |-> q, thr |-> t]

\* The channels belong to a project, whose sequencer Project.__init__ makes
\* (line 16).
InitVariants ==
    /\ max_channels = MaxChannels
    /\ reg = Registered.reg
    /\ engine = Registered.engine
    /\ last = NoCall
    /\ rpc = Idle
    /\ raced = [p \in Paths |-> FALSE]
    /\ stepch = [c \in ChanIds |-> NewStepChannel("piano", 80)]
    /\ written = [c \in ChanIds |-> EmptyMap]
    /\ seq = NewSequencer(DefaultSteps, DefaultBpm)
    /\ shist = NoValue
    /\ slast = NoValue
    /\ sthr = NewThreads
    /\ proj = NoValue
    /\ chv = NoValue
    /\ variants = [midi |-> NewFreeMidi, met |-> NewMetronome,
                   bridge |-> [is_playing |-> FALSE],
                   calls |-> 0, op |-> "none", kind |-> "none", raised |-> NoValue,
                   msg |-> NoMessage]
    /\ run = NoValue

varrest == <<reg, max_channels, last, rpc, raced, stepch, written, slast, shist, proj, chv,
             run>>

varframe == <<seq, sthr, varrest>>

Called(op, kind, raised) ==
    [variants EXCEPT !.calls = @ + 1, !.op = op, !.kind = kind, !.raised = raised]

VPlay(k) ==
    /\ variants.calls < MaxVariantCalls
    /\ IF k = "bridge"
       THEN LET r == bridge_play(variants.bridge, seq, sthr)
            IN /\ variants' = [Called("play", k, NoValue) EXCEPT !.bridge = r.chan]
               /\ seq' = r.seq
               /\ sthr' = r.thr
       ELSE /\ variants' = [Called("play", k, NoValue) EXCEPT
                               ![k] = IF k = "midi" THEN midi_play(@) ELSE base_play(@)]
            /\ UNCHANGED <<seq, sthr>>
    /\ UNCHANGED <<engine, varrest>>

VStop(k) ==
    /\ variants.calls < MaxVariantCalls
    /\ IF k = "midi"
       THEN LET r == midi_stop(variants.midi)
            IN /\ variants' = [Called("stop", k, r.raised) EXCEPT !.midi = r.chan]
               /\ UNCHANGED <<engine, seq, sthr>>
       ELSE IF k = "met"
       THEN LET r == met_stop(variants.met, engine)
            IN /\ variants' = [Called("stop", k, NoValue) EXCEPT !.met = r.chan]
               /\ engine' = r.engine
               /\ UNCHANGED <<seq, sthr>>
       ELSE LET r == bridge_stop(variants.bridge, seq, sthr)
            IN /\ variants' = [Called("stop", k, NoValue) EXCEPT !.bridge = r.chan]
               /\ seq' = r.seq
               /\ sthr' = r.thr
               /\ engine' = engine
    /\ UNCHANGED varrest

\* tick(): InstrumentChannel.tick, lines 42-44, unless the metronome's.
VTick(k) ==
    /\ variants.calls < MaxVariantCalls
    /\ IF k = "met"
       THEN LET r == met_tick(variants.met, engine)
            IN /\ variants' = [Called("tick", k, NoValue) EXCEPT !.met = r.chan]
               /\ engine' = r.engine
       ELSE /\ variants' = Called("tick", k, NoValue)
            /\ engine' = engine
    /\ UNCHANGED varframe

\* FreeMidiChannel._read_midi_input, lines 49-50: a reader that was started
\* gets a message from the port and tests the flag; msg is the message it
\* goes on with.
VMidiRecv(type, note, velocity) ==
    /\ variants.calls < MaxVariantCalls
    /\ variants.midi.readers > 0
    /\ variants.msg = NoMessage
    /\ variants' = [Called("recv", "midi", NoValue) EXCEPT
                       !.msg = IF variants.midi.is_playing
                               THEN [type |-> type, note |-> note, velocity |-> velocity]
                               ELSE NoMessage]
    /\ UNCHANGED <<engine, varframe>>

\* Line 51: the reader plays the message it went on with.
VMidiPlay ==
    /\ variants.msg # NoMessage
    /\ LET m == variants.msg
           r == play_midi_message(variants.midi, engine, m.type, m.note, m.velocity)
       IN /\ variants' = [variants EXCEPT !.midi = r.chan, !.msg = NoMessage,
                                          !.op = "message", !.kind = "midi"]
          /\ engine' = r.engine
    /\ UNCHANGED varframe

VTimerFire(i) ==
    /\ i \in DOMAIN variants.met.timers
    /\ variants.met.timers[i] = "waiting"
    /\ LET r == release_note(variants.met, engine, i)
       IN /\ variants' = [variants EXCEPT !.met = r.chan, !.op = "timer", !.kind = "met"]
          /\ engine' = r.engine
    /\ UNCHANGED varframe

NextVariants ==
    \/ \E k \in VariantKinds : VPlay(k)
    \/ \E k \in VariantKinds : VStop(k)
    \/ \E k \in VariantKinds : VTick(k)
    \/ \E ty \in MidiTypes, n \in MidiNotes, v \in MidiVelocities : VMidiRecv(ty, n, v)
    \/ VMidiPlay
    \/ \E i \in 1..MaxVariantCalls : VTimerFire(i)
    \/ Start
    \/ StopBegin
    \/ StopFinish
    \/ LoopExit
    \/ MLoopAdvance

SpecVariants == InitVariants /\ [][NextVariants]_vars

(***************************************************************************)
(* start() and stop() of a StepSequencer called by several threads, one    *)
(* statement at a time: neither method takes the lock before line 74.      *)
(* Every start() that gets to line 61 makes a step loop thread of its own. *)
(***************************************************************************)
NoThread == 0

\* thread is the _thread attribute (the number of a loop, or NoThread), loops
\* the position of every loop thread made so far, pc the position of each
\* caller and joining the loop that a caller's join() waits for.  A loop in
\* "wait" is inside stop_event.wait(wait_time) with time left, a loop in "due"
\* has none left; interrupted tells that a wait was ended by the event.
\* wait_time is each loop's local of line 84 (no time is taken off for the
\* step itself) and slept the time that the wait which ended last took.
NewRun ==
    [stop_event |-> FALSE,
     thread |-> NoThread,
     loops |-> <<>>,
     pc |-> [t \in Threads |-> "idle"],
     joining |-> [t \in Threads |-> NoThread],
     calls |-> 0,
     advances |-> 0,
     interrupted |-> FALSE,
     wait_time |-> <<>>,
     slept |-> 0,
     last_op |-> "none"]

InitStartStop ==
    /\ max_channels = MaxChannels
    /\ reg = Registered.reg
    /\ engine = Registered.engine
    /\ last = NoCall
    /\ rpc = Idle
    /\ raced = [p \in Paths |-> FALSE]
    /\ stepch = [c \in ChanIds |->
                    [NewStepChannel("piano", 90) EXCEPT !.steps = LoopPattern]]
    /\ written = [c \in ChanIds |-> EmptyMap]
    /\ seq = add_channel(NewSequencer(2, DefaultBpm), "c1")
    /\ shist = NoValue
    /\ slast = NoValue
    /\ sthr = NoValue
    /\ proj = NoValue
    /\ chv = NoValue
    /\ variants = NoValue
    /\ run = NewRun

runframe == <<reg, max_channels, last, rpc, raced, stepch, written, slast, shist, sthr, proj,
              chv, variants>>

\* start(), lines 56-57.
SCall(t) ==
    /\ run.pc[t] = "idle"
    /\ run.calls < MaxSeqCalls
    /\ run' = [run EXCEPT !.calls = @ + 1, !.last_op = "start",
                          !.pc[t] = IF seq.is_running THEN "idle" ELSE "clear"]
    /\ UNCHANGED <<seq, engine, runframe>>

\* Line 59.
SClear(t) ==
    /\ run.pc[t] = "clear"
    /\ run' = [run EXCEPT !.stop_event = FALSE, !.pc[t] = "set"]
    /\ UNCHANGED <<seq, engine, runframe>>

\* Line 60.
SSet(t) ==
    /\ run.pc[t] = "set"
    /\ seq' = [seq EXCEPT !.is_running = TRUE]
    /\ run' = [run EXCEPT !.pc[t] = "spawn"]
    /\ UNCHANGED <<engine, runframe>>

\* Lines 61-62.
SSpawn(t) ==
    /\ run.pc[t] = "spawn"
    /\ run' = [run EXCEPT !.loops = Append(@, "top"), !.thread = Len(run.loops) + 1,
                          !.wait_time = Append(@, 0), !.pc[t] = "idle"]
    /\ UNCHANGED <<seq, engine, runframe>>

\* stop(), lines 65-66.
PCall(t) ==
    /\ run.pc[t] = "idle"
    /\ run.calls < MaxSeqCalls
    /\ run' = [run EXCEPT !.calls = @ + 1, !.last_op = "stop",
                          !.pc[t] = IF seq.is_running THEN "flag" ELSE "idle"]
    /\ UNCHANGED <<seq, engine, runframe>>

\* Line 68.
PFlag(t) ==
    /\ run.pc[t] = "flag"
    /\ seq' = [seq EXCEPT !.is_running = FALSE]
    /\ run' = [run EXCEPT !.pc[t] = "signal"]
    /\ UNCHANGED <<engine, runframe>>

\* Line 69.
PSignal(t) ==
    /\ run.pc[t] = "signal"
    /\ run' = [run EXCEPT !.stop_event = TRUE, !.pc[t] = "join"]
    /\ UNCHANGED <<seq, engine, runframe>>

\* Lines 70-71: the thread to join is the one _thread names now.
PJoin(t) ==
    /\ run.pc[t] = "join"
    /\ run' = [run EXCEPT !.joining[t] = run.thread,
                          !.pc[t] = IF run.thread = NoThread THEN "locked" ELSE "joining"]
    /\ UNCHANGED <<seq, engine, runframe>>

\* Lines 71-72: join() returns when that loop has exited.
PJoined(t) ==
    /\ run.pc[t] = "joining"
    /\ run.loops[run.joining[t]] = "exited"
    /\ run' = [run EXCEPT !.thread = NoThread, !.joining[t] = NoThread,
                          !.pc[t] = "locked"]
    /\ UNCHANGED <<seq, engine, runframe>>

\* Lines 74-77.
PLocked(t) ==
    /\ run.pc[t] = "locked"
    /\ LET res == stop_locked(seq, engine)
       IN seq' = res.seq /\ engine' = res.engine
    /\ run' = [run EXCEPT !.pc[t] = "idle"]
    /\ UNCHANGED runframe

\* _run, line 80: loop i tests the event and goes into advance_one_step.
LTop(i) ==
    /\ run.loops[i] = "top"
    /\ run.stop_event \/ run.advances < MaxLoopSteps
    /\ run' = IF run.stop_event THEN [run EXCEPT !.loops[i] = "exited"]
              ELSE [run EXCEPT !.loops[i] = "advancing", !.advances = @ + 1]
    /\ UNCHANGED <<seq, engine, runframe>>

\* Lines 82 and 88-107: advance_one_step of loop i.
LAdvance(i) ==
    /\ run.loops[i] = "advancing"
    /\ LET res == advance_one_step(seq, engine, reg, stepch)
       IN seq' = res.seq /\ engine' = res.engine
    /\ run' = [run EXCEPT !.loops[i] = "wait",
                          !.wait_time[i] = advance_one_step(seq, engine, reg, stepch).ret]
    /\ UNCHANGED runframe

\* advance_one_step() called directly, as a test does, on a sequencer that
\* has no live loop; lines 88-107.
RAdvance ==
    /\ \A i \in DOMAIN run.loops : run.loops[i] = "exited"
    /\ \A t \in Threads : run.pc[t] = "idle"
    /\ run.advances < MaxLoopSteps
    /\ LET res == advance_one_step(seq, engine, reg, stepch)
       IN seq' = res.seq /\ engine' = res.engine
    /\ run' = [run EXCEPT !.advances = @ + 1, !.last_op = "advance"]
    /\ UNCHANGED runframe

\* set_tempo() called by any thread at any moment, lines 28-32.
RSetTempo(bpm) ==
    /\ seq' = set_tempo(seq, bpm).seq
    /\ UNCHANGED <<engine, run, runframe>>

\* The wait lasts as long as the step duration is when it ends.
LElapse_CurrentTempo(i) ==
    /\ run.loops[i] = "wait"
    /\ run' = [run EXCEPT !.loops[i] = "due", !.slept = seq.step_duration]
    /\ UNCHANGED <<seq, engine, runframe>>

\* The wait_time of line 84, handed to wait() in line 85, passes.
LElapse(i) ==
    /\ run.loops[i] = "wait"
    /\ run' = [run EXCEPT !.loops[i] = "due", !.slept = run.wait_time[i]]
    /\ UNCHANGED <<seq, engine, runframe>>

\* The wait returns only when its time is over, whatever the event says.
LWait_Blind(i) ==
    /\ run.loops[i] = "due"
    /\ run' = [run EXCEPT !.loops[i] = IF run.stop_event THEN "exited" ELSE "top"]
    /\ UNCHANGED <<seq, engine, runframe>>

\* Lines 85-86: the wait returns True as soon as the event is set, and False
\* when its time is over; True leaves the loop.
LWait(i) ==
    /\ run.loops[i] = "due" \/ (run.loops[i] = "wait" /\ run.stop_event)
    /\ run' = [run EXCEPT !.loops[i] = IF run.stop_event THEN "exited" ELSE "top",
                          !.interrupted = @ \/ run.loops[i] = "wait"]
    /\ UNCHANGED <<seq, engine, runframe>>

NextStartStop ==
    \/ \E t \in Threads : SCall(t)
    \/ \E t \in Threads : SClear(t)
    \/ \E t \in Threads : SSet(t)
    \/ \E t \in Threads : SSpawn(t)
    \/ \E t \in Threads : PCall(t)
    \/ \E t \in Threads : PFlag(t)
    \/ \E t \in Threads : PSignal(t)
    \/ \E t \in Threads : PJoin(t)
    \/ \E t \in Threads : PJoined(t)
    \/ \E t \in Threads : PLocked(t)
    \/ \E i \in 1..MaxSeqCalls : i <= Len(run.loops) /\ LTop(i)
    \/ \E i \in 1..MaxSeqCalls : i <= Len(run.loops) /\ LAdvance(i)
    \/ \E i \in 1..MaxSeqCalls : i <= Len(run.loops) /\ LElapse(i)
    \/ \E i \in 1..MaxSeqCalls : i <= Len(run.loops) /\ LWait(i)
    \/ \E bpm \in TempoArgs : RSetTempo(bpm)
    \/ RAdvance

SpecStartStop == InitStartStop /\ [][NextStartStop]_vars

\* The calls of start() and stop() made one after another: a thread calls
\* while no other thread is inside a call.
Serial(t) == \A u \in Threads \ {t} : run.pc[u] = "idle"

LoopStep ==
    \E i \in 1..MaxSeqCalls :
        i <= Len(run.loops) /\ (LTop(i) \/ LAdvance(i) \/ LWait(i))

StopStep(t) == PFlag(t) \/ PSignal(t) \/ PJoin(t) \/ PJoined(t) \/ PLocked(t)

NextSerial ==
    \/ \E t \in Threads : Serial(t) /\ SCall(t)
    \/ \E t \in Threads : SClear(t) \/ SSet(t) \/ SSpawn(t)
    \/ \E t \in Threads : Serial(t) /\ PCall(t)
    \/ \E t \in Threads : StopStep(t)
    \/ \E i \in 1..MaxSeqCalls : i <= Len(run.loops) /\ LElapse(i)
    \/ LoopStep

\* The loop thread and the thread inside stop() get processor time; nothing
\* is assumed about the passing of the wait's time.
SpecSerialLive ==
    /\ InitStartStop /\ [][NextSerial]_vars
    /\ WF_vars(LoopStep)
    /\ \A t \in Threads : WF_vars(StopStep(t))

(***************************************************************************)
(* A FreeMetronomeChannel of some volume, called by one thread for more    *)
(* than a measure; beats counts the ticks that played since the last       *)
(* stop().                                                                 *)
(***************************************************************************)
MetVolumes == {50, 80, 100}

InitAccent ==
    /\ max_channels = MaxChannels
    /\ reg = Registered.reg
    /\ engine = Registered.engine
    /\ last = NoCall
    /\ rpc = Idle
    /\ raced = [p \in Paths |-> FALSE]
    /\ stepch = [c \in ChanIds |-> NewStepChannel("piano", 80)]
    /\ written = [c \in ChanIds |-> EmptyMap]
    /\ seq = NoValue
    /\ shist = NoValue
    /\ slast = NoValue
    /\ sthr = NoValue
    /\ proj = NoValue
    /\ \E v \in MetVolumes :
          chv = [obj |-> [NewMetronome EXCEPT !.volume = v],
                 beats |-> 0, calls |-> 0, last_op |-> "none"]
    /\ variants = NoValue
    /\ run = NoValue

accframe == <<reg, max_channels, last, rpc, raced, stepch, written, seq, slast, shist, sthr,
              proj, variants, run>>

\* InstrumentChannel.play, lines 30-34.
APlay ==
    /\ chv.calls < MaxMetCalls
    /\ chv' = [chv EXCEPT !.obj = base_play(@), !.calls = @ + 1, !.last_op = "play"]
    /\ UNCHANGED <<engine, accframe>>

\* FreeMetronomeChannel.stop.
AStop ==
    /\ chv.calls < MaxMetCalls
    /\ LET r == met_stop(chv.obj, engine)
       IN /\ chv' = [chv EXCEPT !.obj = r.chan, !.beats = 0, !.calls = @ + 1,
                                !.last_op = "stop"]
          /\ engine' = r.engine
    /\ UNCHANGED accframe

\* FreeMetronomeChannel.tick.
ATick ==
    /\ chv.calls < MaxMetCalls
    /\ LET r == met_tick(chv.obj, engine)
       IN /\ chv' = [chv EXCEPT !.obj = r.chan,
                                !.beats = IF chv.obj.is_playing THEN @ + 1 ELSE @,
                                !.calls = @ + 1, !.last_op = "tick"]
          /\ engine' = r.engine
    /\ UNCHANGED accframe

\* The timer of a tick fires before the next call.
ATimerFire(i) ==
    /\ i \in DOMAIN chv.obj.timers
    /\ chv.obj.timers[i] = "waiting"
    /\ LET r == release_note(chv.obj, engine, i)
       IN /\ chv' = [chv EXCEPT !.obj = r.chan, !.last_op = "timer"]
          /\ engine' = r.engine
    /\ UNCHANGED accframe

NextAccent ==
    \/ APlay
    \/ AStop
    \/ ATick
    \/ \E i \in 1..MaxMetCalls : ATimerFire(i)

SpecAccent == InitAccent /\ [][NextAccent]_vars

(***************************************************************************)
(* Properties of the registry.                                             *)
(***************************************************************************)
Assigned(r) == {r.registry[n].channel : n \in DOMAIN r.registry}

KeyOf(entry) == <<entry.soundfont_path, entry.bank, entry.preset>>

AllChannels == 0..(max_channels - 1)

\* C1: in every reachable state the pool and the channels held by registry
\* entries are disjoint and together are exactly 0..max_channels-1.
C1_PoolPartition ==
    /\ Range(reg.available_channels) \cap Assigned(reg) = {}
    /\ Range(reg.available_channels) \cup Assigned(reg) = AllChannels

\* C2: a new name registered with the triple of a name already in the table
\* gets that name's channel, takes nothing from the pool and makes no
\* select_instrument call.
C2_SameTripleSharesChannel ==
    [][(/\ last'.op = "register"
        /\ last'.name \notin DOMAIN reg.registry
        /\ \E m \in DOMAIN reg.registry : KeyOf(reg.registry[m]) = last'.key)
       => (/\ \A m \in DOMAIN reg.registry :
                 KeyOf(reg.registry[m]) = last'.key
                     => last'.ret = reg.registry[m].channel
           /\ reg'.available_channels = reg.available_channels
           /\ "select_instrument" \notin Range(last'.calls))]_vars

NoRegisteredPrimary(r, key) ==
    ~(/\ key \in DOMAIN r.preset_to_primary_name
      /\ r.preset_to_primary_name[key] \in DOMAIN r.registry)

\* C3: with the pool empty, registering a new name whose triple has no
\* registered primary raises the error and leaves the name table, the pool
\* and the preset-to-primary map as they were; every registered name still
\* resolves to its channel.
C3_ExhaustionLeavesRegistryIntact ==
    [][(/\ last'.op = "register"
        /\ reg.available_channels = <<>>
        /\ last'.name \notin DOMAIN reg.registry
        /\ NoRegisteredPrimary(reg, last'.key))
       => (/\ last'.raised = RuntimeError
           /\ reg'.registry = reg.registry
           /\ reg'.available_channels = reg.available_channels
           /\ reg'.preset_to_primary_name = reg.preset_to_primary_name
           /\ \A m \in DOMAIN reg.registry :
                 /\ get_instrument(reg', m) = get_instrument(reg, m)
                 /\ get_instrument(reg', m) # NoChannel)]_vars

\* C3 witness: with max_channels = 1, "piano" holds the only channel and the
\* registration of another preset has just been refused.
C3_Witness ==
    /\ max_channels = 1
    /\ last.op = "register"
    /\ last.raised = RuntimeError
    /\ last.name # "piano"
    /\ get_instrument(reg, "piano") = 0
    /\ last.name \notin DOMAIN reg.registry

\* C4: two registered names whose triples differ never resolve to the same
\* channel.
C4_ChannelUniqueAmongPresets ==
    \A n \in DOMAIN reg.registry, m \in DOMAIN reg.registry :
        KeyOf(reg.registry[n]) # KeyOf(reg.registry[m])
            => reg.registry[n].channel # reg.registry[m].channel

\* C5: register_instrument of a name already in the table returns the
\* recorded channel, leaves the table and the pool as they were and makes no
\* select_instrument call, whatever triple the call passes.
C5_RegisterIdempotent ==
    [][(last'.op = "register" /\ last'.name \in DOMAIN reg.registry)
       => (/\ last'.ret = reg.registry[last'.name].channel
           /\ reg'.registry = reg.registry
           /\ reg'.available_channels = reg.available_channels
           /\ "select_instrument" \notin Range(last'.calls))]_vars

\* C5 witness: a repeated registration that passed another triple than the
\* one recorded for the name has returned.
C5_Witness ==
    /\ last.op = "register"
    /\ last.log = "already registered"
    /\ last.name \in DOMAIN reg.registry
    /\ KeyOf(reg.registry[last.name]) # last.key
    /\ last.ret = reg.registry[last.name].channel

\* C6 as stated: load_soundfont is invoked exactly once per distinct path,
\* also when the calls are made concurrently.
C6_LoadedExactlyOnce ==
    \A p \in Paths : engine.load_calls[p] <= 1

\* C6 amended: a cached path was loaded at least once; it was loaded more
\* than once only if a call missed the cache while another call was still
\* between its own miss and its cache store, and never more often than
\* there are threads.
C6_LoadedOncePerRacingCall ==
    \A p \in Paths :
        /\ CacheHit(reg, p) => engine.load_calls[p] >= 1
        /\ ~raced[p] => engine.load_calls[p] <= 1
        /\ engine.load_calls[p] <= Cardinality(Threads)

\* C6 witness: two threads raced on one path and both loaded it, after
\* which both registrations completed.
C6_Witness ==
    \E p \in Paths :
        /\ raced[p]
        /\ engine.load_calls[p] = 2
        /\ \A t \in Threads : rpc[t].pc = "idle"
        /\ ConcNames \subseteq DOMAIN reg.registry

(***************************************************************************)
(* Properties of StepChannel.                                              *)
(***************************************************************************)
Highest(S) == CHOOSE i \in S : \A j \in S : j <= i

\* C10: get_steps() has length one plus the highest index ever passed to
\* set_step or reset_step; an index holds what set_step last wrote there and
\* is empty when it was never written by set_step or was last written by
\* reset_step, so no call changes an index other than its own.
C10_PatternLengthAndContent ==
    \A c \in ChanIds :
        LET steps == stepch[c].steps
            passed == DOMAIN written[c]
        IN /\ Len(steps) = IF passed = {} THEN 0 ELSE Highest(passed) + 1
           /\ \A i \in 0..(Len(steps) - 1) :
                 steps[i + 1] = IF i \in passed THEN written[c][i] ELSE EmptyStep

\* C10 witness: set_step(2, 60, 100) and then reset_step at a lower index
\* that was never set: three entries, only the last one holds a note.
C10_Witness ==
    /\ DOMAIN written["c1"] = {0, 2}
    /\ written["c1"][0] = EmptyStep
    /\ stepch["c1"].steps = <<EmptyStep, EmptyStep, <<60, 100>>>>

(***************************************************************************)
(* Properties of StepSequencer.                                            *)
(***************************************************************************)
\* C7: after any sequence of advance_one_step calls every channel's
\* active-notes set holds at most one (midi_channel, note) pair.
C7_AtMostOneActiveNote ==
    \A c \in DOMAIN seq.active_notes : Cardinality(seq.active_notes[c]) <= 1

\* C7 witness: after several steps both attached channels hold a note.
C7_Witness ==
    /\ shist.advances >= 2
    /\ Len(seq.channels) = 2
    /\ \A c \in ChanIds : Cardinality(seq.active_notes[c]) = 1

\* The pattern entry at an index, read as the claim reads it: an index the
\* pattern does not reach holds nothing.
EntryAt(c, i) ==
    IF i < Len(stepch[c].steps) THEN stepch[c].steps[i + 1] ELSE EmptyStep

\* The pattern entry at an index taken modulo the pattern's length.
EntryWrapped(c, i) ==
    IF stepch[c].steps = <<>> THEN EmptyStep
    ELSE stepch[c].steps[(i % Len(stepch[c].steps)) + 1]

ExpectedOffs(c) ==
    LET held == ListOf(seq.active_notes[c])
    IN [j \in 1..Len(held) |-> <<"off", held[j][1], held[j][2], NoVelocity>>]

ExpectedOn(c, entry) ==
    IF entry # EmptyStep /\ entry[1] # NoNote
           /\ stepch[c].instrument_name \in DOMAIN reg.registry
    THEN << <<"on", reg.registry[stepch[c].instrument_name].channel, entry[1],
              IF entry[2] = NoVelocity THEN stepch[c].volume ELSE entry[2]>> >>
    ELSE <<>>

RECURSIVE ExpectedEvents(_, _, _)
ExpectedEvents(chans, i, wrap) ==
    IF chans = <<>> THEN <<>>
    ELSE LET c == Head(chans)
         IN ExpectedOffs(c)
                \o ExpectedOn(c, IF wrap THEN EntryWrapped(c, i) ELSE EntryAt(c, i))
                \o ExpectedEvents(Tail(chans), i, wrap)

Advanced == shist'.advances = shist.advances + 1

\* C8 as stated: the k-th advance_one_step plays pattern index (k-1) mod
\* steps of each attached channel: per channel the note-offs of its active
\* notes and then, if the entry has a note and the instrument is registered,
\* one note-on with the step's velocity or else the channel's volume.
C8_PlaysStepIndex ==
    [][Advanced =>
         engine'.note_events =
             engine.note_events
                 \o ExpectedEvents(seq.channels, (shist'.advances - 1) % seq.steps,
                                   FALSE)]_vars

\* C8 amended: the entry played is the one at index ((k-1) mod steps) mod L
\* of a pattern of length L > 0, and nothing is played from an empty pattern.
C8_PlaysStepIndexWrapped ==
    [][Advanced =>
         engine'.note_events =
             engine.note_events
                 \o ExpectedEvents(seq.channels, (shist'.advances - 1) % seq.steps,
                                   TRUE)]_vars

\* C8 witness: steps [(60,100), empty, (62,absent), (64,70)] at volume 90 on
\* a 4-step sequencer advanced 4 times gave on(60,100), off(60), on(62,90),
\* off(62), on(64,70).
C8_Witness ==
    /\ seq.steps = 4
    /\ seq.channels = <<"c1">>
    /\ stepch["c1"].steps = TestPattern
    /\ stepch["c1"].volume = 90
    /\ shist.advances = 4
    /\ engine.note_events = << <<"on", 0, 60, 100>>, <<"off", 0, 60, NoVelocity>>,
                               <<"on", 0, 62, 90>>, <<"off", 0, 62, NoVelocity>>,
                               <<"on", 0, 64, 70>> >>

\* C9: advance_one_step returns the duration of the tempo set by the most
\* recent set_tempo call that returned (of the constructor's bpm when there
\* was none) and leaves the stored duration as it was.
C9_ReturnsCurrentDuration ==
    [][Advanced =>
         /\ slast'.ret = 60000 \div shist.tempo
         /\ seq'.step_duration = seq.step_duration]_vars

\* C9 witness: on a sequencer built with 120 bpm the tempo was set to 60
\* and the second advance_one_step returned one second.
C9_Witness ==
    /\ shist.tempo = 60
    /\ shist.advances = 2
    /\ slast.ret = 1000
    /\ seq.step_duration = 1000

(***************************************************************************)
(* Properties of the step loop thread.                                     *)
(***************************************************************************)
StopReturns == sthr.cpc = "join" /\ sthr'.cpc = "idle"

NewEvents == SubSeq(engine'.note_events, Len(engine.note_events) + 1,
                    Len(engine'.note_events))

\* C11: when stop() returns after a call on a running sequencer, the step
\* loop thread has exited, a note-off was sent for every note that was active
\* on an attached channel, every active set is empty and current_step is 0.
C11_StopJoinsAndReleases ==
    [][StopReturns =>
         /\ sthr'.thread # "alive"
         /\ sthr'.loop.pc = "none"
         /\ \A c \in Range(seq.channels) : \A x \in seq.active_notes[c] :
               <<"off", x[1], x[2], NoVelocity>> \in Range(NewEvents)
         /\ \A c \in DOMAIN seq'.active_notes : seq'.active_notes[c] = {}
         /\ seq'.current_step = 0]_vars

\* stop() has returned and it released a note the loop had left sounding.
C11_Witness ==
    /\ sthr.cpc = "idle"
    /\ sthr.thread = "none"
    /\ ~seq.is_running
    /\ sthr.stop_offs > 0
    /\ seq.current_step = 0

MidiChannels == {0, 1}

CountOf(log, kind, mc, note, n) ==
    Cardinality({i \in 1..n : log[i][1] = kind /\ log[i][2] = mc /\ log[i][3] = note})

Sounding(mc, note) ==
    LET log == engine.note_events
    IN CountOf(log, "on", mc, note, Len(log)) > CountOf(log, "off", mc, note, Len(log))

Tracked(mc, note) ==
    \/ \E c \in DOMAIN seq.active_notes : <<mc, note>> \in seq.active_notes[c]
    \/ /\ sthr.loop.pc = "add"
       /\ sthr.loop.midi_channel = mc
       /\ StepAt(stepch[Head(sthr.loop.snapshot)].steps, sthr.loop.step_index)[1] = note

\* C12: under every interleaving of the step loop with remove_channel and
\* stop(), a note is never released more often than it was turned on, and a
\* note that sounds is one the sequencer still holds and will release.
C12_EveryNoteOnReleasedOnce ==
    LET log == engine.note_events
    IN \A mc \in MidiChannels, note \in Notes :
          /\ \A n \in 1..Len(log) :
                CountOf(log, "off", mc, note, n) <= CountOf(log, "on", mc, note, n)
          /\ Sounding(mc, note) => Tracked(mc, note)

\* C18: an exception raised while one channel's step is played is caught for
\* that channel: the loop thread lives on, the rest of the snapshot is
\* played, current_step stays advanced by one and the call returns the
\* step duration it read.
C18_ExceptionCaughtPerChannel ==
    [][/\ sthr'.caught = sthr.caught + 1 =>
            /\ sthr'.thread = "alive"
            /\ sthr'.loop.snapshot = Tail(sthr.loop.snapshot)
            /\ sthr'.loop.pc = IF Tail(sthr.loop.snapshot) = <<>> THEN "top" ELSE "steps"
            /\ seq'.current_step = (sthr.loop.step_index + 1) % seq.steps
       /\ (sthr.loop.pc \notin {"top", "none"} /\ sthr'.loop.pc = "top") =>
            sthr'.ret = seq.step_duration]_vars

\* Channel c1 was removed while its step was played: the KeyError was caught,
\* channel c2 was played after it and the call returned the step duration.
C18_Witness ==
    /\ sthr.caught = 1
    /\ sthr.thread = "alive"
    /\ sthr.loop.pc = "top"
    /\ sthr.ret = StepDuration(DefaultBpm)
    /\ seq.current_step = 1
    /\ engine.note_events = << <<"on", 0, 60, 100>>, <<"on", 1, 64, 70>> >>
    /\ seq.active_notes = Put(EmptyMap, "c2", {<<1, 64>>})

(***************************************************************************)
(* Properties of steps played for instrument names that do not resolve.    *)
(***************************************************************************)
\* The channel has a note at the step index and its instrument is registered.
Plays(c, i) ==
    /\ stepch[c].steps # <<>>
    /\ StepAt(stepch[c].steps, i) # EmptyStep
    /\ StepAt(stepch[c].steps, i)[1] # NoNote
    /\ stepch[c].instrument_name \in DOMAIN reg.registry

\* The channel has a note at the step index but its instrument is not registered.
Unresolved(c, i) ==
    /\ stepch[c].steps # <<>>
    /\ StepAt(stepch[c].steps, i) # EmptyStep
    /\ StepAt(stepch[c].steps, i)[1] # NoNote
    /\ stepch[c].instrument_name \notin DOMAIN reg.registry

OnEventOf(c, i) ==
    LET step == StepAt(stepch[c].steps, i)
    IN <<"on", reg.registry[stepch[c].instrument_name].channel, step[1],
         IF step[2] # NoVelocity THEN step[2] ELSE stepch[c].volume>>

\* C19: a step with a note of a channel whose instrument name is not
\* registered adds nothing to the channel's active notes and sends no
\* note-on, while the channel's active notes are released and the other
\* channels of the snapshot are played; the call returns as usual.
C19_UnresolvedInstrumentSkipped ==
    [][Advanced =>
         \A c \in Range(seq.channels) : Unresolved(c, seq.current_step) =>
            /\ seq'.active_notes[c] = {}
            /\ \A x \in seq.active_notes[c] :
                  <<"off", x[1], x[2], NoVelocity>> \in Range(NewEvents)
            /\ \A d \in Range(seq.channels) : Plays(d, seq.current_step) =>
                  /\ OnEventOf(d, seq.current_step) \in Range(NewEvents)
                  /\ seq'.active_notes[d] # {}
            /\ Cardinality({k \in DOMAIN NewEvents : NewEvents[k][1] = "on"})
                 = Cardinality({d \in Range(seq.channels) : Plays(d, seq.current_step)})
            /\ slast'.ret = seq.step_duration
            /\ seq'.current_step = NextStep(seq)]_vars

\* "piano" was unregistered while channel c1 held note 62: at the third step
\* the note is released, c1's step (60, 100) is skipped and c2 is played.
C19_Witness ==
    /\ shist.advances = 3
    /\ "piano" \notin DOMAIN reg.registry
    /\ stepch["c1"].instrument_name = "piano"
    /\ seq.active_notes["c1"] = {}
    /\ engine.note_events =
         << <<"on", 0, 60, 100>>, <<"on", 1, 64, 70>>,
            <<"off", 0, 60, NoVelocity>>, <<"on", 0, 62, 90>>, <<"off", 1, 64, NoVelocity>>,
            <<"off", 0, 62, NoVelocity>>, <<"on", 1, 64, 70>> >>

(***************************************************************************)
(* Properties of Project.                                                  *)
(***************************************************************************)
PlayCalled == proj'.calls = proj.calls + 1 /\ proj'.last_op = "play"

\* C14: play() on a project that is playing starts neither the backend, nor
\* a channel, nor a worker pool, nor a tick thread, and at most one
\* tick-dispatch loop runs at any time.
C14_PlayWhilePlayingIsNoOp ==
    /\ [](proj.loops <= 1)
    /\ [][(PlayCalled /\ proj.is_playing) =>
             /\ proj' = [proj EXCEPT !.calls = @ + 1, !.last_op = "play"]
             /\ seq' = seq
             /\ sthr' = sthr
             /\ engine' = engine]_vars

\* play() was called twice with no stop() in between, and beats went on.
C14_Witness ==
    /\ proj.last_op = "play"
    /\ proj.calls = 2
    /\ proj.engine_stops = 0
    /\ proj.engine_starts = 1
    /\ proj.pools = 1
    /\ proj.loops = 1
    /\ proj.beat >= 1

Stopped == proj.cpc = "idle" /\ ~proj.is_playing

\* C15: once stop() has returned the tick thread has ended and no tick is
\* submitted for any channel until play() is called again.
C15_NoTickSubmittedAfterStop ==
    [][Stopped => /\ proj.tick_thread # "alive"
                  /\ proj'.submitted = proj.submitted]_vars

\* stop() has returned on a project that had dispatched ticks and had beats left.
C15_Witness ==
    /\ Stopped
    /\ proj.last_op = "stop"
    /\ proj.engine_stops = 1
    /\ proj.submitted > 0
    /\ proj.beat < MaxBeats
    /\ proj.tick_thread = "none"

QueuedTicks(c) == Cardinality({i \in DOMAIN proj.queue : proj.queue[i] = c})

\* C16: a channel whose tick() never returns does not keep the ticks of the
\* other channels from being run: whenever such a tick is queued, a worker
\* is free or is running a tick that returns.
C16_NoHeadOfLineBlocking ==
    (\E c \in ProjChannels : Kinds[c] # "stuck" /\ QueuedTicks(c) > 0) =>
        \/ RunningTotal(proj) < proj.workers
        \/ \E c \in ProjChannels : Kinds[c] # "stuck" /\ proj.running[c] > 0
        \/ ~proj.executor

TickRaised == proj'.raised = proj.raised + 1

PendingTicks(c) == Cardinality({i \in DOMAIN proj.snapshot : proj.snapshot[i] = c})

NeverStopped == proj.last_op # "stop" /\ proj.engine_stops = 0

\* C17: an exception raised by one channel's tick() ends in its worker: the
\* tick thread, its snapshot and the queued ticks are left as they are, and
\* every beat's tick of every other channel is run, queued or about to be
\* submitted.
C17_TickExceptionContained ==
    /\ [][TickRaised =>
             /\ proj'.tick_thread = proj.tick_thread
             /\ proj'.tpc = proj.tpc
             /\ proj'.snapshot = proj.snapshot
             /\ proj'.queue = proj.queue
             /\ proj'.is_playing = proj.is_playing
             /\ proj'.executor = proj.executor
             /\ \A c \in ProjChannels : Kinds[c] # "raises" =>
                   proj'.running[c] = proj.running[c]]_vars
    /\ [](NeverStopped =>
             \A c \in Range(proj.channels) :
                proj.ticks[c] + QueuedTicks(c) + PendingTicks(c) = proj.beat)

\* Channel b raised in two beats and channel a was ticked in both.
C17_Witness ==
    /\ NeverStopped
    /\ proj.raised = 2
    /\ proj.ticks["a"] = 2
    /\ proj.running["a"] = 0
    /\ proj.beat = 2
    /\ proj.tick_thread = "alive"

(***************************************************************************)
(* Properties of a Project with a metronome and a step channel.            *)
(***************************************************************************)
StoppedAfterStop == proj.cpc = "idle" /\ ~proj.is_playing /\ proj.last_op = "stop"

NoteKeys == Notes \cup {NoNote}

Balanced ==
    LET log == engine.note_events
    IN \A mc \in MidiChannels, note \in NoteKeys :
          CountOf(log, "on", mc, note, Len(log)) = CountOf(log, "off", mc, note, Len(log))

\* C13: once stop() has returned, every note-on the backend has recorded has
\* exactly one note-off, and no note-on of the session that stop() ended is
\* sent any more, also when play() follows at once.
C13_StopThenPlayLeavesNoNote ==
    /\ [](StoppedAfterStop => Balanced)
    /\ [][StoppedAfterStop =>
            \A k \in DOMAIN NewEvents : NewEvents[k][1] # "on"]_vars

(***************************************************************************)
(* Properties of the channel variants.                                     *)
(***************************************************************************)
VariantCalled(op, k) ==
    /\ variants'.calls = variants.calls + 1
    /\ variants'.op = op
    /\ variants'.kind = k

\* C20: for every variant, play() on a playing channel and stop() on a
\* stopped channel leave the channel as it is, with its readers and timers,
\* and make no backend call; tick() on a stopped channel makes no backend
\* call.
C20_PlayStopIdempotent ==
    [][\A k \in VariantKinds :
          /\ (VariantCalled("play", k) /\ variants[k].is_playing) =>
                (variants'[k] = variants[k] /\ engine' = engine)
          /\ (VariantCalled("stop", k) /\ ~variants[k].is_playing) =>
                (variants'[k] = variants[k] /\ engine' = engine)
          /\ (VariantCalled("tick", k) /\ ~variants[k].is_playing) =>
                engine' = engine]_vars

(***************************************************************************)
(* Properties of the metronome's ticks, timers and stop().                 *)
(***************************************************************************)
\* The note-ons less the note-offs of the beat note among the first n events.
Held(n) ==
    LET log == engine.note_events
    IN CountOf(log, "on", chv.channel, BeatNote, n)
       - CountOf(log, "off", chv.channel, BeatNote, n)

\* C21: under every interleaving of tick(), the release timers and stop(),
\* the metronome's note-ons and note-offs alternate (the previous note is
\* released before the next note-on and no note-on gets two note-offs), and
\* after stop() with no tick in flight no timer is pending and no note is
\* active.
C21_MetronomeNotesPaired ==
    /\ \A n \in 0..Len(engine.note_events) : Held(n) \in {0, 1}
    /\ (StoppedAfterStop /\ chv.tick = "none") =>
          /\ chv.noteoff_timer = NoTimer
          /\ chv.active_note = NoNote
          /\ \A i \in DOMAIN chv.timers : chv.timers[i] # "waiting"

(***************************************************************************)
(* Properties of the free MIDI channel.                                    *)
(***************************************************************************)
MessageReceived ==
    /\ variants.msg # NoMessage
    /\ variants'.msg = NoMessage
    /\ variants.midi.is_playing

\* C22: while the channel plays, a note-on with velocity > 0 for a note not
\* held is forwarded as a note-on and the note becomes held; a note-off event
\* (a note_off of any velocity, or a note_on of velocity 0) for a held note
\* is forwarded as a note-off and the note is held no longer.
C22_MidiEventsForwarded ==
    [][MessageReceived =>
         LET m == variants.msg
             c == variants.midi
         IN /\ (m.type = "note_on" /\ m.velocity > 0 /\ m.note \notin c.active_notes) =>
                  /\ NewEvents = << <<"on", c.channel, m.note, m.velocity>> >>
                  /\ m.note \in variants'.midi.active_notes
            /\ ((m.type = "note_off" \/ (m.type = "note_on" /\ m.velocity = 0))
                  /\ m.note \in c.active_notes) =>
                  /\ NewEvents = << <<"off", c.channel, m.note, NoVelocity>> >>
                  /\ m.note \notin variants'.midi.active_notes]_vars

StopCalled == VariantCalled("stop", "midi") /\ variants.midi.is_playing

OffsOf(c) == {<<"off", c.channel, note, NoVelocity>> : note \in c.active_notes}

\* C23: stop() on a playing free MIDI channel sends a note-off for exactly
\* the notes held and leaves the held set empty, and once stop() has returned
\* no note-on is forwarded, also when the reader is handling a message.
C23_MidiStopReleasesHeldNotes ==
    /\ [][StopCalled =>
            /\ Range(NewEvents) = OffsOf(variants.midi)
            /\ Len(NewEvents) = Cardinality(variants.midi.active_notes)
            /\ variants'.midi.active_notes = {}]_vars
    /\ [][~variants.midi.is_playing =>
            \A k \in DOMAIN NewEvents :
               ~(NewEvents[k][1] = "on" /\ NewEvents[k][2] = variants.midi.channel)]_vars

(***************************************************************************)
(* Properties of the step-sequencer bridge channel.                        *)
(***************************************************************************)
\* C24, as stated: play() on the bridge starts the project's StepSequencer,
\* stop() on it stops that StepSequencer, and the bridge sends no note event.
C24_BridgeForwardsLifecycle ==
    [][/\ VariantCalled("play", "bridge") => (seq'.is_running /\ engine' = engine)
       /\ VariantCalled("stop", "bridge") => (~seq'.is_running /\ engine' = engine)]_vars

\* C24, amended: play() and stop() on the bridge set and clear the bridge's
\* own playing flag, leave the project's StepSequencer and its loop thread as
\* they are, running or not, and send no note event.
C24_BridgeTogglesOnlyItsFlag ==
    [][/\ VariantCalled("play", "bridge") =>
             /\ variants'.bridge.is_playing
             /\ seq' = seq /\ sthr' = sthr /\ engine' = engine
       /\ VariantCalled("stop", "bridge") =>
             /\ ~variants'.bridge.is_playing
             /\ seq' = seq /\ sthr' = sthr /\ engine' = engine]_vars

\* The bridge was stopped while the sequencer runs on with its loop thread.
C24_Witness ==
    /\ variants.op = "stop"
    /\ variants.kind = "bridge"
    /\ ~variants.bridge.is_playing
    /\ seq.is_running
    /\ sthr.thread = "alive"
    /\ sthr.advances > 0

(***************************************************************************)
(* Properties of start() and stop() called by several threads.             *)
(***************************************************************************)
LiveLoops == {i \in DOMAIN run.loops : run.loops[i] # "exited"}

Advancing == {i \in DOMAIN run.loops : run.loops[i] = "advancing"}

StartOnRunning(t) ==
    /\ run.pc[t] = "idle"
    /\ run'.pc[t] = "idle"
    /\ run'.calls = run.calls + 1
    /\ run'.last_op = "start"
    /\ seq.is_running

\* C25: start() on a running sequencer changes nothing, and whatever start()
\* and stop() calls the threads make, at most one step loop exists and no two
\* loops are inside advance_one_step at once.
C25_SingleStepLoop ==
    /\ [][\A t \in Threads : StartOnRunning(t) =>
            /\ seq' = seq
            /\ run'.loops = run.loops
            /\ run'.stop_event = run.stop_event
            /\ run'.thread = run.thread]_vars
    /\ [](Cardinality(LiveLoops) <= 1 /\ Cardinality(Advancing) <= 1)

(***************************************************************************)
(* Properties of the registry's channel pool.                              *)
(***************************************************************************)
Unregistered(name) == last'.op = "unregister" /\ last'.name = name

\* C26: the pool of a fresh registry is 0, 1, 2, ... and a new primary takes
\* the channel at its head; unregister_instrument of a registered name
\* removes the name and appends its channel to the back of the pool, and of
\* an unknown name changes nothing.
C26_PoolIsFifo ==
    /\ [](last = NoCall =>
            reg.available_channels = [i \in 1..max_channels |-> i - 1])
    /\ [][/\ (last'.op = "register" /\ last'.log = "registered") =>
                /\ last'.ret = Head(reg.available_channels)
                /\ reg'.available_channels = Tail(reg.available_channels)
                /\ reg'.registry[last'.name].channel = last'.ret
          /\ \A name \in Names :
                /\ (Unregistered(name) /\ name \in DOMAIN reg.registry) =>
                      /\ DOMAIN reg'.registry = DOMAIN reg.registry \ {name}
                      /\ reg'.available_channels =
                            Append(reg.available_channels, reg.registry[name].channel)
                /\ (Unregistered(name) /\ name \notin DOMAIN reg.registry) =>
                      reg' = reg]_vars

\* Channel 0 was taken first and came back behind channel 1, which the next
\* primary then took.
C26_Witness ==
    /\ last.op = "register"
    /\ last.log = "registered"
    /\ last.ret = 1
    /\ reg.available_channels = <<0>>

(***************************************************************************)
(* Properties of a failing backend.                                        *)
(***************************************************************************)
PlayRaised == proj'.calls = proj.calls + 1 /\ proj'.last_op = "play raised"

LoadRaised == last' # last /\ last'.op = "register" /\ last'.raised = BackendError

\* C27: when the backend's start() raises in Project.play(), the exception
\* reaches the caller and the project is not playing, the sequencer is not
\* started, no channel's play() is called and no worker pool or tick thread
\* is made; when load_soundfont raises in register_instrument, the exception
\* reaches the caller and no registry entry and no pool slot is used up.
C27_BackendFailurePropagates ==
    [][/\ PlayRaised =>
             /\ ~proj'.is_playing
             /\ seq' = seq /\ sthr' = sthr
             /\ proj'.chan_plays = proj.chan_plays
             /\ proj'.chan_playing = proj.chan_playing
             /\ proj'.pools = proj.pools
             /\ proj'.executor = proj.executor
             /\ proj'.tick_thread = proj.tick_thread
             /\ proj'.loops = proj.loops
       /\ LoadRaised =>
             /\ reg'.registry = reg.registry
             /\ reg'.available_channels = reg.available_channels
             /\ reg'.soundfont_cache = reg.soundfont_cache]_vars

\* A load failed after an instrument was registered, and later a play()
\* failed after an earlier play() and stop() went well.
C27_Witness ==
    /\ last.raised = BackendError
    /\ DOMAIN reg.registry # {}
    /\ proj.last_op = "play raised"
    /\ proj.engine_stops > 0
    /\ proj.pools > 0

(***************************************************************************)
(* Properties of the metronome's accent.                                   *)
(***************************************************************************)
TickPlayed ==
    /\ chv'.calls = chv.calls + 1
    /\ chv'.last_op = "tick"
    /\ chv.obj.is_playing

AccentVelocity(m) == (m.accent_volume * m.volume) \div 100

LastEvent == engine.note_events[Len(engine.note_events)]

\* C28: of the ticks that play since the last stop(), the first of every
\* measure (tick 1, 1 + B, 1 + 2B, ...) sends its note-on with velocity
\* int(accent_volume * volume / 100) and every other tick with the channel's
\* volume; the tick counter stays within 0..B.
C28_AccentOnFirstBeat ==
    /\ [](chv.obj.tick_count \in 0..BeatsPerMeasure)
    /\ [][TickPlayed =>
            /\ NewEvents # <<>>
            /\ NewEvents[Len(NewEvents)] =
                  <<"on", chv.obj.channel, BeatNote,
                    IF chv'.beats % BeatsPerMeasure = 1
                    THEN AccentVelocity(chv.obj) ELSE chv.obj.volume>>]_vars

\* The first tick of the second measure has played, with the accent.
C28_Witness ==
    /\ chv.last_op = "tick"
    /\ chv.beats = BeatsPerMeasure + 1
    /\ chv.obj.tick_count = 1
    /\ chv.obj.volume = 80
    /\ LastEvent = <<"on", chv.obj.channel, BeatNote, 101>>

(***************************************************************************)
(* Properties of the tick-dispatch loop.                                   *)
(***************************************************************************)
Dispatching(b) == proj.tick_thread = "alive" /\ proj.is_playing /\ proj.beat = b

WaitEnds == proj.tpc = "wait" /\ proj'.tpc = "check"

\* C29: every beat of the tick loop submits one tick for each channel of the
\* snapshot taken when the beat began; the wait that follows ends without
\* cancelling a tick that is queued or running; and while the project plays
\* the loop goes on to the next beat, also when a tick never returns.
C29_TickLoopKeepsDispatching ==
    /\ [](proj.submitted = proj.beat * Len(proj.channels)
                            - (IF proj.tpc = "submit" THEN Len(proj.snapshot) ELSE 0))
    /\ [][proj'.beat = proj.beat + 1 => proj'.snapshot = proj.channels]_vars
    /\ [][WaitEnds => /\ proj'.running = proj.running
                      /\ proj'.queue = proj.queue
                      /\ proj'.executor = proj.executor]_vars
    /\ \A b \in 0..(MaxBeats - 1) :
          Dispatching(b) ~> (proj.beat = b + 1 \/ ~proj.is_playing)

\* Three beats were dispatched while two ticks of the stuck channel hold
\* their workers.
C29_Witness ==
    /\ proj.is_playing
    /\ proj.tick_thread = "alive"
    /\ proj.running["s"] >= 2
    /\ proj.beat >= 3
    /\ proj.ticks["a"] >= 2
    /\ proj.last_op = "play"
    /\ proj.engine_stops = 0

(***************************************************************************)
(* Properties of Project.stop().                                           *)
(***************************************************************************)
InStop == proj.cpc # "idle"

\* C30: a stop() that was called returns, also when a tick is running or
\* never returns; when it has returned the project has no worker pool, no
\* tick is queued and no worker takes a tick until play() is called again.
C30_StopTerminates ==
    /\ InStop ~> ~InStop
    /\ [](Stopped => (~proj.executor /\ proj.queue = <<>>))
    /\ [][Stopped => (proj'.ticks = proj.ticks /\ proj'.queue = proj.queue)]_vars

\* stop() has returned although a tick of the stuck channel was taken by a
\* worker, which it still holds.
C30_Witness ==
    /\ Stopped
    /\ proj.last_op = "stop"
    /\ proj.engine_stops > 0
    /\ proj.ticks["s"] > 0
    /\ proj.tick_thread = "none"


(***************************************************************************)
(* The step loop and the stop signal.                                      *)
(***************************************************************************)
InsideStop(t) == run.pc[t] \in {"join", "joining", "locked"}

\* C31: once stop() has set the stop event, no loop begins another
\* advance_one_step (the step in progress may complete), a loop waiting
\* between two steps leaves without its wait_time having passed, and stop()
\* returns.
C31_StopEndsLoop ==
    /\ [][(\E t \in Threads : InsideStop(t)) => run'.advances = run.advances]_vars
    /\ [][run'.advances > run.advances => ~run.stop_event]_vars
    /\ \A t \in Threads : InsideStop(t) ~> (run.pc[t] = "idle")

\* stop() has returned after ending a wait that had time left, with steps played.
C31_Witness ==
    /\ run.last_op = "stop" /\ \A t \in Threads : run.pc[t] = "idle"
    /\ run.interrupted /\ run.advances > 0
    /\ run.loops # <<>> /\ \A i \in DOMAIN run.loops : run.loops[i] = "exited"
    /\ ~seq.is_running /\ Len(engine.note_events) > 0

(***************************************************************************)
(* set_tempo against the sleeping step loop.                               *)
(***************************************************************************)
Sleeping(i) == i \in DOMAIN run.loops /\ run.loops[i] = "wait"

\* C32: a set_tempo made while a loop sleeps after a step leaves the length
\* of that sleep as it is, which is the duration that the step read under the
\* lock; the wait after the next step takes the duration current at that step.
C32_TempoAtStepBoundary ==
    /\ [][\A i \in 1..MaxSeqCalls :
            (Sleeping(i) /\ seq'.step_duration # seq.step_duration)
                => (run'.loops[i] = "wait" /\ run'.wait_time[i] = run.wait_time[i])]_vars
    /\ [][\A i \in 1..MaxSeqCalls :
            (Sleeping(i) /\ run'.loops[i] = "due") => run'.slept = run.wait_time[i]]_vars
    /\ [][\A i \in 1..MaxSeqCalls :
            (i \in DOMAIN run.loops /\ run.loops[i] = "advancing" /\ run'.loops[i] = "wait")
                => run'.wait_time[i] = seq.step_duration]_vars

\* A sleep has ended with the old duration although the tempo was changed
\* while it lasted.
C32_Witness ==
    \E i \in DOMAIN run.loops :
        /\ run.loops[i] = "due"
        /\ run.slept = run.wait_time[i]
        /\ run.slept = StepDuration(DefaultBpm)
        /\ seq.bpm # 0 /\ seq.step_duration # run.slept

(***************************************************************************)
(* Backend calls and the registry lock.                                    *)
(***************************************************************************)
\* The backend calls of register_instrument that come before line 80.
OutsideLock == {"load_soundfont"}

\* C33: no call into the sound backend is made by a thread that holds the
\* registry lock: the backend calls of a register_instrument are all made
\* before the lock is taken.
C33_NoBackendCallUnderLock ==
    \A i \in DOMAIN last.calls : last.calls[i] \in OutsideLock

(***************************************************************************)
(* stop() of a StepSequencer that is not running.                          *)
(***************************************************************************)
Silent(q) == \A c \in DOMAIN q.active_notes : q.active_notes[c] = {}

\* A stop() that is called while no other call is in progress and returns at once.
StopReturnsAtOnce ==
    /\ \A t \in Threads : run.pc[t] = "idle"
    /\ run'.calls = run.calls + 1 /\ run'.last_op = "stop"
    /\ \A t \in Threads : run'.pc[t] = "idle"

\* C34: stop() leaves no active note and the step index at 0 from any state,
\* also when the notes were started by direct advance_one_step calls on a
\* sequencer whose loop is not running.
C34_StopConvergesToSilence ==
    [][StopReturnsAtOnce => (Silent(seq') /\ seq'.current_step = 0)]_vars

(***************************************************************************)
(* The preset-to-primary-name map.                                         *)
(***************************************************************************)
\* C35: whenever a name is registered with a (soundfont_path, bank, preset)
\* triple, the preset-to-primary-name map names, for that triple, a name that
\* is in the registry.
C35_PrimaryNameIsRegistered ==
    \A n \in DOMAIN reg.registry :
        LET key == KeyOf(reg.registry[n])
        IN /\ key \in DOMAIN reg.preset_to_primary_name
           /\ reg.preset_to_primary_name[key] \in DOMAIN reg.registry

(***************************************************************************)
(* The shared step index and patterns of another length.                   *)
(***************************************************************************)
\* The notes of the entries of c's pattern at the indices the sequencer's
\* step index never takes.
NotesBeyond(c) ==
    {stepch[c].steps[j][1] : j \in (seq.steps + 1)..Len(stepch[c].steps)}

MidiChannelOf(c) == get_instrument(reg, stepch[c].instrument_name)

\* C36: current_step stays within 0..steps-1 and wraps; an advance_one_step
\* plays, for every attached channel, the entry at the shared step index
\* taken modulo the length of the channel's pattern, so a shorter pattern
\* starts again at entry 0 when the sequencer wraps, and of a longer pattern
\* the entries at the indices from steps on are never played.
C36_SharedStepIndex ==
    /\ [](seq.current_step \in 0..(seq.steps - 1))
    /\ [][Advanced =>
            /\ seq'.current_step = (seq.current_step + 1) % seq.steps
            /\ engine'.note_events =
                   engine.note_events
                       \o ExpectedEvents(seq.channels, seq.current_step, TRUE)]_vars
    /\ [](\A c \in ChanIds : \A i \in DOMAIN engine.note_events :
             LET ev == engine.note_events[i]
             IN (ev[1] = "on" /\ ev[2] = MidiChannelOf(c)) => ev[3] \notin NotesBeyond(c))

\* Four calls on the 3-step sequencer: the 4-entry pattern never got to its
\* entry (64, 70) and is back at (60, 100); the 2-entry pattern played its
\* entry 0 at the index 2 and again at the index 0 that follows.
C36_Witness ==
    /\ shist.advances = 4 /\ seq.current_step = 1
    /\ seq.channels = <<"c1", "c2">>
    /\ engine.note_events =
          << <<"on", 0, 60, 100>>, <<"on", 1, 64, 70>>,
             <<"off", 0, 60, NoVelocity>>, <<"off", 1, 64, NoVelocity>>,
             <<"on", 0, 62, 90>>, <<"on", 1, 64, 70>>,
             <<"off", 0, 62, NoVelocity>>, <<"on", 0, 60, 100>>,
             <<"off", 1, 64, NoVelocity>>, <<"on", 1, 64, 70>> >>

(***************************************************************************)
(* The release timer of one tick and the note of the next.                 *)
(***************************************************************************)
\* The number of note-ons the metronome has sent; the i-th one is followed by
\* the start of timer i.
BeatsSent ==
    CountOf(engine.note_events, "on", chv.channel, BeatNote, Len(engine.note_events))

\* Timer i sends its note-off.
TimerReleases(i) ==
    i \in DOMAIN chv.timers /\ chv.timers[i] = "off" /\ chv'.timers[i] = "clear"

\* C37: the release timer of a tick sends its note-off only while the note
\* of that tick is the last one started, and a timer that has neither fired
\* nor been cancelled is the one that _noteoff_timer refers to.
C37_TimerReleasesOwnNote ==
    /\ [][\A i \in 1..MaxTicks : TimerReleases(i) => BeatsSent = i]_vars
    /\ [](\A i \in DOMAIN chv.timers :
             chv.timers[i] = "waiting" => chv.noteoff_timer = i)

(***************************************************************************)
(* Channels attached while the project plays.                              *)
(***************************************************************************)
PlayStarts ==
    ~proj.is_playing /\ proj'.last_op = "play" /\ proj'.calls = proj.calls + 1

Attached(c) == proj'.channels = Append(proj.channels, c)

\* C38: attaching a channel calls no play() and leaves the worker pool as it
\* is; a beat's fan-out is the channel list at the time of its snapshot; a
\* channel's play() is called, and the size of the pool is set (to the larger
\* of 4 and the number of channels), only by a play() that starts the project.
C38_AttachedWhilePlaying ==
    /\ [][\A c \in ProjChannels : Attached(c) =>
            /\ proj'.chan_playing = proj.chan_playing
            /\ proj'.chan_plays = proj.chan_plays
            /\ proj'.workers = proj.workers /\ proj'.pools = proj.pools]_vars
    /\ [][proj'.beat = proj.beat + 1 => proj'.snapshot = proj.channels]_vars
    /\ [][(\E c \in ProjChannels : ~proj.chan_playing[c] /\ proj'.chan_playing[c])
              => PlayStarts]_vars
    /\ [][proj'.workers # proj.workers =>
            /\ PlayStarts
            /\ proj'.workers = Max(MinWorkers, Len(proj.channels))]_vars

\* The project plays five channels with the four workers of a pool made for
\* one; "b" was attached after play(), a tick of it was handed to the pool
\* and it is not playing.
C38_Witness ==
    /\ proj.is_playing /\ proj.executor
    /\ Len(proj.channels) = 5 /\ proj.workers = MinWorkers
    /\ "b" \in Range(proj.channels) /\ "b" \in Range(proj.queue)
    /\ ~proj.chan_playing["b"]

(***************************************************************************)
(* The project's bpm and the tempo of its sequencer.                       *)
(***************************************************************************)
\* C39: a play() that starts the project leaves the sequencer running with
\* the bpm the project was constructed with and the step duration 60/bpm,
\* whatever set_tempo the sequencer was given before; the project's own bpm
\* and seconds_per_beat never change.
C39_PlayResetsSequencerTempo ==
    /\ [][PlayStarts =>
            /\ seq'.is_running
            /\ seq'.bpm = proj.bpm
            /\ seq'.step_duration = StepDuration(proj.bpm)]_vars
    /\ [][proj'.bpm = proj.bpm /\ proj'.seconds_per_beat = proj.seconds_per_beat]_vars
    /\ [](proj.seconds_per_beat = StepDuration(proj.bpm))

\* The sequencer was last given another tempo than the project's, and the
\* play() that followed has put the project's back; the loop has used it.
C39_Witness ==
    /\ proj.last_op = "play" /\ proj.is_playing /\ seq.is_running
    /\ shist.tempo # proj.bpm
    /\ seq.bpm = proj.bpm /\ seq.step_duration = StepDuration(proj.bpm)
    /\ sthr.advances > 0 /\ sthr.ret = StepDuration(proj.bpm)

(***************************************************************************)
(* The active-notes table and the attached channels.                       *)
(***************************************************************************)
Unchanged(res) == res.seq = seq /\ res.engine = engine

\* C40: the keys of the active-notes table are the attached channels, each
\* attached once; add_channel of an attached channel changes nothing;
\* remove_channel of an attached channel sends the note-offs of its active
\* notes and takes the channel out of the list and the table; remove_channel
\* of a channel that is not attached sends nothing and changes nothing.
C40_ActiveNotesKeysAreChannels ==
    /\ DOMAIN seq.active_notes = Range(seq.channels)
    /\ Cardinality(Range(seq.channels)) = Len(seq.channels)
    /\ \A c \in ChanIds :
          LET res == remove_channel(seq, engine, c)
          IN IF c \in Range(seq.channels)
             THEN /\ add_channel(seq, c) = seq
                  /\ res.engine.note_events = engine.note_events \o ExpectedOffs(c)
                  /\ Range(res.seq.channels) = Range(seq.channels) \ {c}
                  /\ DOMAIN res.seq.active_notes = DOMAIN seq.active_notes \ {c}
                  /\ \A d \in DOMAIN res.seq.active_notes :
                         res.seq.active_notes[d] = seq.active_notes[d]
             ELSE /\ Unchanged(res)
                  /\ Range(add_channel(seq, c).channels) = Range(seq.channels) \cup {c}

\* After one step "c1" was removed with its note sounding: the note-off was
\* sent and only "c2" is left, with its note still active.
C40_Witness ==
    /\ shist.advances = 1
    /\ seq.channels = <<"c2">>
    /\ DOMAIN seq.active_notes = {"c2"} /\ seq.active_notes["c2"] = {<<1, 64>>}
    /\ engine.note_events = << <<"on", 0, 60, 100>>, <<"on", 1, 64, 70>>,
                               <<"off", 0, 60, NoVelocity>> >>

=============================================================================
